---- MODULE Spec2Model ----
(***************************************************************************)
(* Seat reservation pipeline of the booking backend: the Redis lock        *)
(* service (LockService), the booking engine (BookingService.reserveSeat,  *)
(* confirmBooking, releaseSeat) and the tenant seat sync route, over the   *)
(* durable collections seats / reservations / bookings.                    *)
(*                                                                         *)
(* Every request handler is an async function; it is split at the awaits   *)
(* that reach Redis or MongoDB, so that handlers of concurrent requests    *)
(* interleave exactly where the event loop (or another server process)     *)
(* lets them.  Time is a discrete clock; Redis drops a key when its EX     *)
(* time-to-live has elapsed.                                               *)
(***************************************************************************)
EXTENDS Integers, FiniteSets, Sequences, TLC

\* ------------------------------------------------------------------ bounds
MaxReqs  == 3      \* requests issued in one behaviour
MaxTime  == 2      \* clock ticks in one behaviour
LockReqs == 2      \* requests issued against the lock service alone
OrderReqs == 3     \* requests of the create-order scenario
AuthReqs == 2      \* requests of the tenant authentication scenarios
LiveReqs == 2      \* requests of the lock expiry scenario
PayReqs == 4       \* requests of the two-seat payment scenario
ListReqs == 3      \* requests of the seat listing scenario
UserReqs == 2      \* requests of the user identification scenario
MaxSyncs == 1      \* seat sync calls in one behaviour
RaceN    == 3      \* concurrent reserve calls in the reserve race
SeqReqs  == 3      \* calls made one after another in one behaviour
RelReqs  == 4      \* reserve / release calls made one after another

\* --------------------------------------------------------------- constants
LockTTL == 1       \* env.LOCK_TTL_SECONDS, in clock ticks
Null    == 0       \* JavaScript null / a missing document
SeedPrice == 150   \* price of a seeded seat
NoSuchToken == 99  \* a reservationToken no reservation carries

Users  == {1, 2}
Reqs   == 1..MaxReqs
Seats  == {"s1"}
Apps   == {"appA"}
PaymentIds == {"pay_1"}
SeqPaymentIds == {"pay_1", "PAY-OK-1", "PAY-123"}   \* two well formed, one not
Tenants == {"appA", "appB"}
TwoSeats == {"s1", "s2"}                  \* a venue with two seats
SeatIds == Seats \cup {"s9"}             \* "s9": no Seat document has this id

SeatApp(s) == "appA"                      \* Seat.appId, fixed at creation
SeatEntity(s) == "concert-2026"           \* Seat.entityId
Entities == {"concert-2026", "bus-42"}
SeatNumber(s) == IF s = "s1" THEN 1 ELSE 2   \* rank of Seat.seatNumber in sort order

\* The key's value written by acquireLock, plus the instant Redis drops it.
NoLock == [reservationToken |-> Null, userId |-> Null, expiresAt |-> Null, keyExp |-> Null]

\* what a confirm call found when it arrived (history, dropped on return)
NoCall == [status |-> "none", owner |-> Null, expired |-> FALSE,
           atExpiry |-> FALSE, lockOk |-> FALSE,
           seat |-> "none"]

\* no origin / referer header
NoOrigin == <<>>

\* no App document loaded
NoApp == [isActive |-> FALSE, apiKeyHash |-> <<>>, allowedDomains |-> {}]

\* no Authorization header
NoBearer == [present |-> FALSE, ok |-> FALSE, userId |-> <<>>]

IdleReq == [op |-> "none", pc |-> "idle", appId |-> "none", userId |-> Null,
            seatId |-> "none", token |-> Null, paymentId |-> "none",
            ts |-> Null, rstatus |-> "none", sBookedBy |-> Null, sPrice |-> Null,
            ttl |-> Null, bid |-> Null, result |-> "none", detail |-> "none",
            orderId |-> Null, call |-> NoCall,
            apiKey |-> "none", origin |-> <<>>, app |-> NoApp,
            bearer |-> NoBearer, extHeader |-> <<>>, bodyExt |-> <<>>,
            bodyUserId |-> <<>>, externalId |-> <<>>, isExternal |-> FALSE,
            entityId |-> "none", found |-> <<>>, listing |-> <<>>,
            rzpOrderId |-> "none", rzpPaymentId |-> "none", signature |-> <<>>]

VARIABLES
    now,            \* Date.now()
    seats,          \* Seat collection: seatId -> [status, bookedBy, bookingId]
    locks,          \* Redis: seat:lock:<seatId> -> lock value or NoLock
    reservations,   \* Reservation collection: reservationToken -> document
    bookings,       \* Booking collection: set of documents
    nextToken,      \* uuidv4(): next fresh reservation token
    nextBooking,    \* next fresh Booking _id / bookingId
    req,            \* request handlers: position and local variables
    syncs,          \* number of seat sync calls so far
    lockLog,        \* history: token -> [seatId, keyExp, deleted] of every granted lock
    orderCache,     \* RazorpayService.orderCache: reservationToken -> order id
    orders,         \* orders the gateway has created: [id, receipt]
    apps            \* App collection: appId -> [isActive, apiKeyHash, allowedDomains]

vars == <<now, seats, locks, reservations, bookings, nextToken, nextBooking,
          req, syncs, lockLog, orderCache, orders, apps>>

\* ------------------------------------------------------------- LockService

\* redis.set(key, value, {NX, EX}) answers 'OK' iff the key does not exist.
SetNXNoCheck(s) == TRUE
SetNX(s) == locks[s].reservationToken = Null

\* verifyLock: the stored lock matches token and user and has not expired.
VerifyLockLax(s, token, userId) ==
    /\ locks[s].reservationToken # Null
    /\ locks[s].reservationToken = token
    /\ locks[s].userId = userId
    /\ locks[s].expiresAt >= now

VerifyLock(s, token, userId) ==
    /\ locks[s].reservationToken # Null
    /\ locks[s].reservationToken = token
    /\ locks[s].userId = userId
    /\ locks[s].expiresAt > now

\* releaseLock's token check: throws when a lock exists with another token.
ReleaseTokenMismatch(s, token) ==
    /\ locks[s].reservationToken # Null
    /\ locks[s].reservationToken # token

\* redis.del(key), with the history of which granted lock it removed.
DelKey(s) ==
    /\ locks' = [locks EXCEPT ![s] = NoLock]
    /\ lockLog' = IF locks[s].reservationToken # Null
                  THEN [lockLog EXCEPT ![locks[s].reservationToken].deleted = TRUE]
                  ELSE lockLog

\* reservationSchema.methods.isExpired
isExpiredNever(res) == FALSE
isExpired(res) == now > res.expiresAt

\* ------------------------------------------------------------------- Init
\* bcrypt.hash(apiKey, 10) and bcrypt.compare(apiKey, hash)
bcryptHash(k) == <<"$2a$10$", k>>

bcryptCompare(k, h) == bcryptHash(k) = h

\* the API key each registered app was created with
ApiKeyOf == [appA |-> "sk_live_A", appB |-> "sk_live_B"]

\* POST /admin/apps: apps are created active, with the hash of their key
AppRegistry ==
    [a \in Tenants |-> [isActive |-> TRUE, apiKeyHash |-> bcryptHash(ApiKeyOf[a]),
                        allowedDomains |-> {}]]

InitSeat == [status |-> "AVAILABLE", bookedBy |-> Null, bookingId |-> Null,
             price |-> SeedPrice]

Init ==
    /\ now = 0
    /\ seats = [s \in Seats |-> InitSeat]
    /\ locks = [s \in Seats |-> NoLock]
    /\ reservations = <<>>
    /\ bookings = {}
    /\ nextToken = 1
    /\ nextBooking = 1
    /\ req = [r \in Reqs |-> IdleReq]
    /\ syncs = 0
    /\ lockLog = <<>>
    /\ orderCache = <<>>
    /\ orders = {}
    /\ apps = AppRegistry

\* ------------------------------------------------------- request plumbing
\* the handler returns or throws; its locals (the acquire timestamp, the
\* loaded seat document) die with it
Finish(r, code, detail) ==
    req' = [req EXCEPT ![r].pc = "done", ![r].result = code, ![r].detail = detail,
                       ![r].ts = Null, ![r].sBookedBy = Null, ![r].sPrice = Null,
                       ![r].call = NoCall]

Goto(r, pc) == req' = [req EXCEPT ![r].pc = pc]

FirstIdle(r) ==
    /\ req[r].pc = "idle"
    /\ \A q \in DOMAIN req : q < r => req[q].pc # "idle"

\* POST /reserve-seat arrives, authenticated under one of the tenants,
\* naming one of the seat ids seatIds
StartReserveOn(r, tenants, seatIds) ==
    /\ FirstIdle(r)
    /\ \E u \in Users, a \in tenants, s \in seatIds :
         req' = [req EXCEPT ![r] = [IdleReq EXCEPT !.op = "reserve", !.pc = "r_find",
                                     !.userId = u, !.appId = a, !.seatId = s]]
    /\ UNCHANGED <<apps, orderCache, orders, now, seats, locks, reservations, bookings, nextToken, nextBooking,
                   syncs, lockLog>>

StartReserveIn(r, tenants) == StartReserveOn(r, tenants, Seats)

StartReserve(r) == StartReserveIn(r, Apps)

\* what the stores hold for token t when user u's confirm call arrives
CallState(t, u) ==
    LET res == reservations[t] IN
    [status |-> res.status, owner |-> res.userId, expired |-> now > res.expiresAt,
     atExpiry |-> now = res.expiresAt,
     lockOk |-> /\ locks[res.seatId].reservationToken = t
                /\ locks[res.seatId].userId = u
                /\ locks[res.seatId].expiresAt > now,
     seat |-> seats[res.seatId].status]

\* POST /confirm-booking arrives, authenticated under one of the tenants
\* and carrying one of the payment ids pids
StartConfirmIn(r, tenants, pids) ==
    /\ FirstIdle(r)
    /\ \E u \in Users, a \in tenants, t \in DOMAIN reservations, p \in pids :
         req' = [req EXCEPT ![r] = [IdleReq EXCEPT !.op = "confirm", !.pc = "c_find",
                                     !.userId = u, !.appId = a, !.token = t,
                                     !.paymentId = p, !.call = CallState(t, u)]]
    /\ UNCHANGED <<apps, orderCache, orders, now, seats, locks, reservations, bookings, nextToken, nextBooking,
                   syncs, lockLog>>

StartConfirm(r) == StartConfirmIn(r, Apps, PaymentIds)

\* POST /release-seat arrives, carrying one of the tokens
StartReleaseWith(r, tokens) ==
    /\ FirstIdle(r)
    /\ \E u \in Users, t \in tokens :
         req' = [req EXCEPT ![r] = [IdleReq EXCEPT !.op = "release", !.pc = "x_find",
                                     !.userId = u, !.token = t]]
    /\ UNCHANGED <<apps, orderCache, orders, now, seats, locks, reservations, bookings, nextToken, nextBooking,
                   syncs, lockLog>>

StartRelease(r) == StartReleaseWith(r, DOMAIN reservations)

\* ------------------------------------------------------------ reserveSeat

\* Seat.findById and the guards; acquireLock then stamps Date.now().
ReserveFindNoStatus(r) ==
    /\ req[r].pc = "r_find"
    /\ LET s == req[r].seatId IN
         IF s \notin DOMAIN seats
           THEN Finish(r, "NotFound", "Seat")
         ELSE IF SeatApp(s) # req[r].appId
           THEN Finish(r, "Conflict", "Seat does not belong to this app")
         ELSE req' = [req EXCEPT ![r].pc = "r_lock", ![r].ts = now]
    /\ UNCHANGED <<apps, orderCache, orders, now, seats, locks, reservations, bookings, nextToken, nextBooking,
                   syncs, lockLog>>

ReserveFind(r) ==
    /\ req[r].pc = "r_find"
    /\ LET s == req[r].seatId IN
         IF s \notin DOMAIN seats
           THEN Finish(r, "NotFound", "Seat")
         ELSE IF SeatApp(s) # req[r].appId
           THEN Finish(r, "Conflict", "Seat does not belong to this app")
         ELSE IF seats[s].status # "AVAILABLE"
           THEN Finish(r, "Conflict", "Seat is not available")
         ELSE req' = [req EXCEPT ![r].pc = "r_lock", ![r].ts = now]
    /\ UNCHANGED <<apps, orderCache, orders, now, seats, locks, reservations, bookings, nextToken, nextBooking,
                   syncs, lockLog>>

\* acquireLock: SET NX EX reaches Redis
ReserveLock(r) ==
    /\ req[r].pc = "r_lock"
    /\ LET s == req[r].seatId IN
         IF SetNX(s)
           THEN /\ locks' = [locks EXCEPT ![s] =
                      [reservationToken |-> nextToken, userId |-> req[r].userId,
                       expiresAt |-> req[r].ts + LockTTL, keyExp |-> now + LockTTL]]
                /\ lockLog' = (nextToken :> [seatId |-> s, keyExp |-> now + LockTTL,
                                             deleted |-> FALSE]) @@ lockLog
                /\ req' = [req EXCEPT ![r].pc = "r_save", ![r].token = nextToken,
                                        ![r].ttl = LockTTL]
                /\ nextToken' = nextToken + 1
           ELSE /\ Finish(r, "SeatLockError", "Seat is already locked by another user")
                /\ UNCHANGED <<locks, lockLog, nextToken>>
    /\ UNCHANGED <<apps, orderCache, orders, now, seats, reservations, bookings, nextBooking, syncs>>

\* the store call of acquireLock fails: getClient() throws while the client
\* is not connected, or redis.set rejects.  The catch block turns every error
\* that is not a SeatLockError into Error('Failed to acquire seat lock');
\* reserveSeat has no handler around acquireLock, so the error goes to the
\* caller and the Reservation is never constructed.  A SET whose reply was
\* lost may still have been applied by the store (applied = TRUE).
ReserveLockFailGrants(r) ==
    /\ req[r].pc = "r_lock"
    /\ req' = [req EXCEPT ![r].pc = "r_save", ![r].token = nextToken,
                            ![r].ttl = LockTTL]
    /\ nextToken' = nextToken + 1
    /\ UNCHANGED <<locks, lockLog>>
    /\ UNCHANGED <<apps, orderCache, orders, now, seats, reservations, bookings, nextBooking, syncs>>

ReserveLockFail(r) ==
    /\ req[r].pc = "r_lock"
    /\ LET s == req[r].seatId IN
         \E applied \in BOOLEAN :
           IF applied /\ SetNX(s)
             THEN /\ locks' = [locks EXCEPT ![s] =
                        [reservationToken |-> nextToken, userId |-> req[r].userId,
                         expiresAt |-> req[r].ts + LockTTL, keyExp |-> now + LockTTL]]
                  /\ lockLog' = (nextToken :> [seatId |-> s, keyExp |-> now + LockTTL,
                                               deleted |-> FALSE]) @@ lockLog
                  /\ nextToken' = nextToken + 1
             ELSE UNCHANGED <<locks, lockLog, nextToken>>
    /\ Finish(r, "Error", "Failed to acquire seat lock")
    /\ UNCHANGED <<apps, orderCache, orders, now, seats, reservations, bookings, nextBooking, syncs>>

\* reservation.save(): the ACTIVE audit row
ReserveSave(r) ==
    /\ req[r].pc = "r_save"
    /\ reservations' = (req[r].token :>
                          [userId |-> req[r].userId, appId |-> req[r].appId,
                           seatId |-> req[r].seatId, status |-> "ACTIVE",
                           expiresAt |-> req[r].ts + LockTTL]) @@ reservations
    /\ Finish(r, "ok", "reserved")
    /\ UNCHANGED <<apps, orderCache, orders, now, seats, locks, bookings, nextToken, nextBooking, syncs, lockLog>>

\* reservation.save() throws: reserveSeat has no handler around it, the error
\* goes to the caller as it is
ReserveSaveFail(r) ==
    /\ req[r].pc = "r_save"
    /\ Finish(r, "Error", "reservation insert failed")
    /\ UNCHANGED <<apps, orderCache, orders, now, seats, locks, reservations, bookings, nextToken, nextBooking,
                   syncs, lockLog>>

\* --------------------------------------------------------- confirmBooking

\* Reservation.findOne and the ownership / status / expiry guards
ConfirmFindNoStatus(r) ==
    /\ req[r].pc = "c_find"
    /\ LET t == req[r].token IN
         IF t \notin DOMAIN reservations
           THEN Finish(r, "NotFound", "Reservation")
         ELSE IF reservations[t].userId # req[r].userId
           THEN Finish(r, "Conflict", "Reservation does not belong to this user")
         ELSE req' = [req EXCEPT ![r].pc = IF isExpired(reservations[t])
                                             THEN "c_expsave" ELSE "c_verify",
                                  ![r].rstatus = reservations[t].status,
                                  ![r].seatId = reservations[t].seatId]
    /\ UNCHANGED <<apps, orderCache, orders, now, seats, locks, reservations, bookings, nextToken, nextBooking,
                   syncs, lockLog>>

ConfirmFind(r) ==
    /\ req[r].pc = "c_find"
    /\ LET t == req[r].token IN
         IF t \notin DOMAIN reservations
           THEN Finish(r, "NotFound", "Reservation")
         ELSE IF reservations[t].userId # req[r].userId
           THEN Finish(r, "Conflict", "Reservation does not belong to this user")
         ELSE IF reservations[t].status # "ACTIVE"
           THEN Finish(r, "Conflict", reservations[t].status)
         ELSE req' = [req EXCEPT ![r].pc = IF isExpired(reservations[t])
                                             THEN "c_expsave" ELSE "c_verify",
                                  ![r].rstatus = reservations[t].status,
                                  ![r].seatId = reservations[t].seatId]
    /\ UNCHANGED <<apps, orderCache, orders, now, seats, locks, reservations, bookings, nextToken, nextBooking,
                   syncs, lockLog>>

\* expired branch: reservation.status = 'EXPIRED'; reservation.save()
ConfirmExpireSave(r) ==
    /\ req[r].pc = "c_expsave"
    /\ reservations' = [reservations EXCEPT ![req[r].token].status = "EXPIRED"]
    /\ Goto(r, "c_exprel")
    /\ UNCHANGED <<apps, orderCache, orders, now, seats, locks, bookings, nextToken, nextBooking, syncs, lockLog>>

\* expired branch: lockService.releaseLock(seatId) without a token, then throw
ConfirmExpireRelease(r) ==
    /\ req[r].pc = "c_exprel"
    /\ DelKey(req[r].seatId)
    /\ Finish(r, "Conflict", "Reservation has expired")
    /\ UNCHANGED <<apps, orderCache, orders, now, seats, reservations, bookings, nextToken, nextBooking, syncs>>

\* lockService.verifyLock
ConfirmVerify(r) ==
    /\ req[r].pc = "c_verify"
    /\ IF VerifyLock(req[r].seatId, req[r].token, req[r].userId)
         THEN Goto(r, "c_seat")
         ELSE Finish(r, "SeatLockError", "Reservation lock is no longer valid")
    /\ UNCHANGED <<apps, orderCache, orders, now, seats, locks, reservations, bookings, nextToken, nextBooking,
                   syncs, lockLog>>

\* Seat.findById and the availability guard
ConfirmSeat(r) ==
    /\ req[r].pc = "c_seat"
    /\ IF seats[req[r].seatId].status # "AVAILABLE"
         THEN Finish(r, "Conflict", "Seat is no longer available")
         ELSE req' = [req EXCEPT ![r].pc = "c_pay",
                                 ![r].sBookedBy = seats[req[r].seatId].bookedBy,
                                 ![r].sPrice = seats[req[r].seatId].price]
    /\ UNCHANGED <<apps, orderCache, orders, now, seats, locks, reservations, bookings, nextToken, nextBooking,
                   syncs, lockLog>>

\* the characters of the payment ids the requests carry
Spelling(p) ==
    CASE p = "pay_1"    -> <<"p", "a", "y", "_", "1">>
      [] p = "PAY-OK-1" -> <<"P", "A", "Y", "-", "O", "K", "-", "1">>
      [] p = "PAY-123"  -> <<"P", "A", "Y", "-", "1", "2", "3">>
      [] OTHER          -> <<>>

DigitChars == {"0", "1", "2", "3", "4", "5", "6", "7", "8", "9"}
UpperChars == {"A", "B", "C", "D", "E", "F", "G", "H", "I", "J", "K", "L", "M",
               "N", "O", "P", "Q", "R", "S", "T", "U", "V", "W", "X", "Y", "Z"}
LowerChars == {"a", "b", "c", "d", "e", "f", "g", "h", "i", "j", "k", "l", "m",
               "n", "o", "p", "q", "r", "s", "t", "u", "v", "w", "x", "y", "z"}

\* /^pay_[A-Za-z0-9]+$/
razorpayPattern(c) ==
    /\ Len(c) >= 5
    /\ SubSeq(c, 1, 4) = <<"p", "a", "y", "_">>
    /\ \A i \in 5..Len(c) : c[i] \in UpperChars \cup LowerChars \cup DigitChars

\* /^PAY-[A-Z0-9]+-[A-Z0-9]+$/
simulatedPattern(c) ==
    /\ Len(c) >= 7
    /\ SubSeq(c, 1, 4) = <<"P", "A", "Y", "-">>
    /\ \E j \in 6..(Len(c) - 1) :
          /\ c[j] = "-"
          /\ \A i \in 5..(j - 1) : c[i] \in UpperChars \cup DigitChars
          /\ \A i \in (j + 1)..Len(c) : c[i] \in UpperChars \cup DigitChars

\* paymentService.validatePaymentIdFormat
validatePaymentIdFormat(p) ==
    razorpayPattern(Spelling(p)) \/ simulatedPattern(Spelling(p))

\* paymentService.verifyPayment: format check, then the gateway round trip
ConfirmPayDropsLock(r) ==
    /\ req[r].pc = "c_pay"
    /\ IF validatePaymentIdFormat(req[r].paymentId)
         THEN Goto(r, "c_txn") /\ UNCHANGED <<locks, lockLog>>
         ELSE Finish(r, "PaymentError", "Invalid payment ID format")
              /\ DelKey(req[r].seatId)
    /\ UNCHANGED <<apps, orderCache, orders, now, seats, reservations, bookings, nextToken, nextBooking, syncs>>

ConfirmPay(r) ==
    /\ req[r].pc = "c_pay"
    /\ IF validatePaymentIdFormat(req[r].paymentId)
         THEN Goto(r, "c_txn")
         ELSE Finish(r, "PaymentError", "Invalid payment ID format")
    /\ UNCHANGED <<apps, orderCache, orders, now, seats, locks, reservations, bookings, nextToken, nextBooking,
                   syncs, lockLog>>

\* The transaction's saves, in order: 1 seat.save (status, bookedBy),
\* 2 booking.save, 3 seat.save (bookingId), 4 reservation.save.  Each save
\* writes the paths the handler changed on the document it loaded, filtered
\* by _id alone.  TxnSeats / TxnBookings / TxnReservations are the
\* collections as the session sees them after its first k saves.
TxnSaves == 4

TxnSeats(r, k) ==
    LET s == req[r].seatId
        u == req[r].userId
    IN  [seats EXCEPT ![s] =
           [seats[s] EXCEPT
              !.status = IF k >= 1 THEN "BOOKED" ELSE seats[s].status,
              !.bookedBy = IF k >= 1 /\ req[r].sBookedBy # u THEN u ELSE seats[s].bookedBy,
              !.bookingId = IF k >= 3 THEN nextBooking ELSE seats[s].bookingId]]

TxnBookings(r, k) ==
    IF k >= 2
    THEN bookings \cup
           {[id |-> nextBooking, userId |-> req[r].userId, appId |-> req[r].appId,
             seatId |-> req[r].seatId, reservationToken |-> req[r].token,
             paymentStatus |-> "SUCCESS", paymentId |-> req[r].paymentId,
             amount |-> req[r].sPrice]}
    ELSE bookings

TxnReservations(r, k) ==
    IF k >= 4 THEN [reservations EXCEPT ![req[r].token].status = "CONFIRMED"]
              ELSE reservations

\* session.commitTransaction(): all four saves become visible at once
ConfirmCommit(r) ==
    /\ req[r].pc = "c_txn"
    /\ seats' = TxnSeats(r, TxnSaves)
    /\ bookings' = TxnBookings(r, TxnSaves)
    /\ reservations' = TxnReservations(r, TxnSaves)
    /\ nextBooking' = nextBooking + 1
    /\ req' = [req EXCEPT ![r].pc = "c_release", ![r].bid = nextBooking]
    /\ UNCHANGED <<apps, orderCache, orders, now, locks, nextToken, syncs, lockLog>>

\* session.abortTransaction(): what the collections hold once the session that
\* staged its writes is aborted
AbortKeepsWrites(stored, staged) == staged
AbortTransaction(stored, staged) == stored

\* the transaction's k-th save throws: the catch block aborts the session and
\* rethrows the error; the lock is not touched
ConfirmAbort(r, k) ==
    /\ req[r].pc = "c_txn"
    /\ seats' = AbortTransaction(seats, TxnSeats(r, k - 1))
    /\ bookings' = AbortTransaction(bookings, TxnBookings(r, k - 1))
    /\ reservations' = AbortTransaction(reservations, TxnReservations(r, k - 1))
    /\ Finish(r, "Error", "transaction aborted")
    /\ UNCHANGED <<apps, orderCache, orders, now, locks, nextToken, nextBooking, syncs, lockLog>>

\* Booking.generateBookingId() draws six random characters; the draw can
\* equal the bookingId of a Booking already stored.  booking.save() then
\* violates the unique index on bookingId and throws: the handler draws no
\* second id, its catch block aborts the session and rethrows the error
ConfirmDuplicate(r) ==
    /\ req[r].pc = "c_txn"
    /\ \E bookingId \in {b.id : b \in bookings} :
          /\ seats' = AbortTransaction(seats, TxnSeats(r, 1))
          /\ bookings' = AbortTransaction(bookings, TxnBookings(r, 1))
          /\ reservations' = AbortTransaction(reservations, TxnReservations(r, 1))
          /\ Finish(r, "Error", "E11000 duplicate key: bookingId")
    /\ UNCHANGED <<apps, orderCache, orders, now, locks, nextToken, nextBooking, syncs, lockLog>>

\* after commit: releaseLock(seatId, token) reads the lock and compares tokens;
\* a mismatch throws into the catch block, which fails too (abort after commit)
ConfirmReleaseGet(r) ==
    /\ req[r].pc = "c_release"
    /\ IF ReleaseTokenMismatch(req[r].seatId, req[r].token)
         THEN Finish(r, "Error", "after commit")
         ELSE Goto(r, "c_del")
    /\ UNCHANGED <<apps, orderCache, orders, now, seats, locks, reservations, bookings, nextToken, nextBooking,
                   syncs, lockLog>>

\* after commit: redis.del(key); the booking is returned
ConfirmReleaseNoDel(r) ==
    /\ req[r].pc = "c_del"
    /\ Finish(r, "ok", "confirmed")
    /\ UNCHANGED <<apps, orderCache, orders, now, seats, locks, reservations, bookings, nextToken, nextBooking,
                   syncs, lockLog>>

ConfirmReleaseDel(r) ==
    /\ req[r].pc = "c_del"
    /\ DelKey(req[r].seatId)
    /\ Finish(r, "ok", "confirmed")
    /\ UNCHANGED <<apps, orderCache, orders, now, seats, reservations, bookings, nextToken, nextBooking, syncs>>

\* ------------------------------------------------------------ releaseSeat

\* releaseSeat rejects only a CONFIRMED reservation
ReleaseRejectsNothing(status) == FALSE
ReleaseRejects(status) == status = "CONFIRMED"

\* Reservation.findOne and the guards
ReleaseFind(r) ==
    /\ req[r].pc = "x_find"
    /\ LET t == req[r].token IN
         IF t \notin DOMAIN reservations
           THEN Finish(r, "NotFound", "Reservation")
         ELSE IF reservations[t].userId # req[r].userId
           THEN Finish(r, "Conflict", "Reservation does not belong to this user")
         ELSE IF ReleaseRejects(reservations[t].status)
           THEN Finish(r, "Conflict", "Cannot release confirmed booking")
         ELSE req' = [req EXCEPT ![r].pc = "x_get",
                                 ![r].rstatus = reservations[t].status,
                                 ![r].seatId = reservations[t].seatId]
    /\ UNCHANGED <<apps, orderCache, orders, now, seats, locks, reservations, bookings, nextToken, nextBooking,
                   syncs, lockLog>>

\* releaseLock(seatId, token): read the lock and compare tokens
ReleaseGet(r) ==
    /\ req[r].pc = "x_get"
    /\ IF ReleaseTokenMismatch(req[r].seatId, req[r].token)
         THEN Finish(r, "SeatLockError", "Invalid reservation token for this seat")
         ELSE Goto(r, "x_del")
    /\ UNCHANGED <<apps, orderCache, orders, now, seats, locks, reservations, bookings, nextToken, nextBooking,
                   syncs, lockLog>>

\* releaseLock: redis.del(key)
ReleaseDel(r) ==
    /\ req[r].pc = "x_del"
    /\ DelKey(req[r].seatId)
    /\ Goto(r, "x_save")
    /\ UNCHANGED <<apps, orderCache, orders, now, seats, reservations, bookings, nextToken, nextBooking, syncs>>

\* reservation.status = 'RELEASED'; reservation.save() (no write when the
\* loaded document already said RELEASED)
ReleaseSave(r) ==
    /\ req[r].pc = "x_save"
    /\ reservations' = IF req[r].rstatus # "RELEASED"
                       THEN [reservations EXCEPT ![req[r].token].status = "RELEASED"]
                       ELSE reservations
    /\ Finish(r, "ok", "released")
    /\ UNCHANGED <<apps, orderCache, orders, now, seats, locks, bookings, nextToken, nextBooking, syncs, lockLog>>

\* ------------------------------------------------- verifyPaymentSignature

\* the deployment has both Razorpay credentials configured
KeyIdSet == TRUE
KeySecretSet == TRUE
isSimulated == ~KeyIdSet \/ ~KeySecretSet

\* crypto.createHmac('sha256', RAZORPAY_KEY_SECRET).update(body).digest('hex')
Hmac(body) == <<"hmac-sha256", "RAZORPAY_KEY_SECRET">> \o body

\* razorpay_order_id + '|' + razorpay_payment_id
SignedBody(orderId, paymentId) == <<orderId, "|", paymentId>>

\* razorpay_signature values: absent, the gateway's signature of
\* order_1|pay_1, a signature of something else, a simulator signature
Signatures ==
    { <<>>,
      Hmac(SignedBody("order_1", "pay_1")),
      Hmac(SignedBody("order_1", "pay_2")),
      <<"SIM_", "0f3a">> }

\* verifyPaymentSignature: TRUE when it returns verified, FALSE when it throws
verifyPaymentSignature(orderId, paymentId, sig) ==
    IF isSimulated /\ sig[1] = "SIM_" THEN TRUE
    ELSE IF ~KeySecretSet THEN TRUE
    ELSE Hmac(SignedBody(orderId, paymentId)) = sig

\* POST /confirm-booking arrives with the legacy paymentId and/or the
\* Razorpay callback fields
StartConfirmSigned(r) ==
    /\ FirstIdle(r)
    /\ \E u \in Users, t \in DOMAIN reservations, p \in {"none", "pay_1"},
          o \in {"none", "order_1"}, rp \in {"none", "pay_1"}, sig \in Signatures :
         req' = [req EXCEPT ![r] = [IdleReq EXCEPT !.op = "confirm", !.pc = "c_sig",
                                     !.userId = u, !.appId = "appA", !.token = t,
                                     !.paymentId = p, !.rzpOrderId = o,
                                     !.rzpPaymentId = rp, !.signature = sig]]
    /\ UNCHANGED <<apps, orderCache, orders, now, seats, locks, reservations, bookings,
                   nextToken, nextBooking, syncs, lockLog>>

\* the route: the signature is verified only when all three Razorpay fields
\* are present; otherwise the legacy paymentId goes to confirmBooking
ConfirmSignature(r) ==
    /\ req[r].pc = "c_sig"
    /\ IF /\ req[r].rzpOrderId # "none" /\ req[r].rzpPaymentId # "none"
          /\ req[r].signature # <<>>
         THEN IF verifyPaymentSignature(req[r].rzpOrderId, req[r].rzpPaymentId,
                                        req[r].signature)
                THEN req' = [req EXCEPT ![r].pc = "c_find",
                                        ![r].paymentId = req[r].rzpPaymentId]
                ELSE Finish(r, "ERROR",
                            "Payment verification failed: Invalid payment signature")
       ELSE IF req[r].paymentId = "none"
         THEN Finish(r, "ERROR", "Payment ID is required")
       ELSE Goto(r, "c_find")
    /\ UNCHANGED <<apps, orderCache, orders, now, seats, locks, reservations, bookings,
                   nextToken, nextBooking, syncs, lockLog>>

\* ------------------------------------------------------------ create-order

\* POST /create-order arrives with a reservation token
StartOrder(r) ==
    /\ FirstIdle(r)
    /\ \E u \in Users, a \in Apps, t \in DOMAIN reservations :
         req' = [req EXCEPT ![r] = [IdleReq EXCEPT !.op = "order", !.pc = "o_find",
                                     !.userId = u, !.appId = a, !.token = t]]
    /\ UNCHANGED <<apps, orderCache, orders, now, seats, locks, reservations, bookings,
                   nextToken, nextBooking, syncs, lockLog>>

\* Reservation.findOne({reservationToken, userId, status: 'ACTIVE'})
OrderFind(r) ==
    /\ req[r].pc = "o_find"
    /\ LET t == req[r].token IN
         IF /\ reservations[t].userId = req[r].userId
            /\ reservations[t].status = "ACTIVE"
           THEN Goto(r, "o_get")
           ELSE Finish(r, "BadRequest", "Invalid or expired reservation")
    /\ UNCHANGED <<apps, orderCache, orders, now, seats, locks, reservations, bookings,
                   nextToken, nextBooking, syncs, lockLog>>

\* createOrder: orderCache.get(reservationToken); a hit is returned as is
OrderGet(r) ==
    /\ req[r].pc = "o_get"
    /\ LET t == req[r].token IN
         IF t \in DOMAIN orderCache
           THEN req' = [req EXCEPT ![r].pc = "done", ![r].result = "ok",
                                   ![r].orderId = orderCache[t]]
           ELSE Goto(r, "o_create")
    /\ UNCHANGED <<apps, orderCache, orders, now, seats, locks, reservations, bookings,
                   nextToken, nextBooking, syncs, lockLog>>

\* the awaited gateway call (simulateCreateOrder / razorpay.orders.create)
\* makes a new order with a fresh id
OrderCreate(r) ==
    /\ req[r].pc = "o_create"
    /\ LET id == Cardinality(orders) + 1 IN
         /\ orders' = orders \cup {[id |-> id, receipt |-> req[r].token]}
         /\ req' = [req EXCEPT ![r].pc = "o_set", ![r].orderId = id]
    /\ UNCHANGED <<apps, orderCache, now, seats, locks, reservations, bookings,
                   nextToken, nextBooking, syncs, lockLog>>

\* orderCache.set(reservationToken, order); return order
OrderSet(r) ==
    /\ req[r].pc = "o_set"
    /\ orderCache' = [t \in DOMAIN orderCache \cup {req[r].token} |->
                        IF t = req[r].token THEN req[r].orderId ELSE orderCache[t]]
    /\ req' = [req EXCEPT ![r].pc = "done", ![r].result = "ok"]
    /\ UNCHANGED <<apps, orders, now, seats, locks, reservations, bookings,
                   nextToken, nextBooking, syncs, lockLog>>

\* ---------------------------------------------------------------- appAuth

\* the operations of the booking router, all behind router.use(appAuth)
TenantOps == {"list", "reserve", "order", "confirm", "release", "mine"}

\* where the route handler of an operation starts
FirstPc(op) ==
    CASE op = "list" -> "l_read"
      [] op = "reserve" -> "r_find"
      [] op = "order" -> "o_find"
      [] op = "confirm" -> "c_find"
      [] op = "release" -> "x_find"
      [] op = "mine" -> "m_read"

\* Header values are sequences of tokens: the scheme, labels, "." and "/".
\* No label is part of another, so a substring of the text is a
\* subsequence of consecutive tokens.
OriginTexts ==
    { <<"https://", "shop", ".", "com">>,
      <<"https://", "www", ".", "shop", ".", "com">>,
      <<"https://", "shop", ".", "com", ".", "evil">>,
      <<"https://", "evil", ".", "com">>,
      <<"https://", "evil", ".", "com", "/", "shop", ".", "com">>,
      <<"shop", ".", "com">> }

\* values an admin stores in allowedDomains
DomainSets ==
    { {}, {<<"shop", ".", "com">>}, {<<"*">>}, {<<"www", ".", "shop", ".", "com">>} }

\* new URL(origin) throws unless the text starts with a scheme
URLParses(o) == Len(o) >= 2 /\ o[1] = "https://"

\* new URL(origin).hostname: what follows the scheme, up to the path
hostname(o) ==
    LET rest == Tail(o)
        cut == IF \E i \in 1..Len(rest) : rest[i] = "/"
                 THEN CHOOSE i \in 1..Len(rest) :
                        rest[i] = "/" /\ \A j \in 1..(i - 1) : rest[j] # "/"
                 ELSE Len(rest) + 1
    IN SubSeq(rest, 1, cut - 1)

\* String.prototype.includes
includes(o, d) ==
    \E i \in 1..(Len(o) - Len(d) + 1) : SubSeq(o, i, i + Len(d) - 1) = d

\* app.allowedDomains.some(...)
isOriginAllowed(allowed, origin) ==
    \E d \in allowed :
        \/ d = <<"*">>
        \/ /\ URLParses(origin)
           /\ \/ d = hostname(origin)
              \/ d = origin
              \/ includes(origin, d)

\* App.findOne({ appId, isActive: true })
FindAnyApp(a) == a \in DOMAIN apps
FindActiveApp(a) == a \in DOMAIN apps /\ apps[a].isActive

\* a request of the booking router arrives with its x-app-id, x-api-key and
\* origin headers, on behalf of one of the users
Arrive(r, appIds, keys, origins, ops, users) ==
    /\ FirstIdle(r)
    /\ \E a \in appIds, k \in keys, o \in origins, op \in ops, u \in users,
          t \in DOMAIN reservations \cup {Null} :
         /\ (op \in {"order", "confirm", "release"}) <=> (t # Null)
         /\ req' = [req EXCEPT ![r] =
                      [IdleReq EXCEPT !.op = op, !.pc = "auth", !.appId = a,
                                      !.apiKey = k, !.origin = o, !.userId = u,
                                      !.token = t,
                                      !.entityId = IF op = "list" THEN "concert-2026"
                                                   ELSE "none",
                                      !.seatId = IF op = "reserve" THEN "s1" ELSE "none",
                                      !.paymentId = IF op = "confirm" THEN "pay_1"
                                                    ELSE "none"]]
    /\ UNCHANGED <<apps, orderCache, orders, now, seats, locks, reservations, bookings,
                   nextToken, nextBooking, syncs, lockLog>>

\* appAuth: the credentials must be present and name an active app
AuthFind(r) ==
    /\ req[r].pc = "auth"
    /\ IF req[r].appId = "none" \/ req[r].apiKey = "none"
         THEN Finish(r, "AuthenticationError", "App credentials required")
       ELSE IF ~FindActiveApp(req[r].appId)
         THEN Finish(r, "AuthenticationError",
                     "Invalid app credentials or app is inactive")
       ELSE req' = [req EXCEPT ![r].pc = "auth_key", ![r].app = apps[req[r].appId]]
    /\ UNCHANGED <<apps, orderCache, orders, now, seats, locks, reservations, bookings,
                   nextToken, nextBooking, syncs, lockLog>>

\* appAuth: the key is compared with the stored hash, then the origin is
\* validated, then next() runs the route handler
AuthKey(r) ==
    /\ req[r].pc = "auth_key"
    /\ LET app == req[r].app IN
         IF ~bcryptCompare(req[r].apiKey, app.apiKeyHash)
           THEN Finish(r, "AuthenticationError", "Invalid app credentials")
         ELSE IF /\ app.allowedDomains # {}
                 /\ req[r].origin # NoOrigin
                 /\ ~isOriginAllowed(app.allowedDomains, req[r].origin)
           THEN Finish(r, "AuthorizationError",
                       "Origin domain not authorized for this app")
         ELSE req' = [req EXCEPT ![r].pc = FirstPc(req[r].op), ![r].app = NoApp]
    /\ UNCHANGED <<apps, orderCache, orders, now, seats, locks, reservations, bookings,
                   nextToken, nextBooking, syncs, lockLog>>

\* redis EXISTS seat:lock:<seatId>
IsLockedNever(s) == FALSE
IsLocked(s) == locks[s].reservationToken # Null

\* .sort({ seatNumber: 1 })
SortSeats(S) ==
    CHOOSE q \in [1..Cardinality(S) -> S] :
        \A i, j \in 1..Cardinality(S) : i < j => SeatNumber(q[i]) < SeatNumber(q[j])

\* GET /seats arrives for an entity, on behalf of one of the users
StartList(r, users) ==
    /\ FirstIdle(r)
    /\ \E u \in users, a \in Tenants, e \in Entities :
         req' = [req EXCEPT ![r] = [IdleReq EXCEPT !.op = "list", !.pc = "l_read",
                                     !.userId = u, !.appId = a, !.entityId = e]]
    /\ UNCHANGED <<apps, orderCache, orders, now, seats, locks, reservations, bookings,
                   nextToken, nextBooking, syncs, lockLog>>

\* getAvailableSeats: Seat.find({appId, entityId, status: 'AVAILABLE'}) sorted
\* by seatNumber
ListSeats(r) ==
    /\ req[r].pc = "l_read"
    /\ req' = [req EXCEPT ![r].pc = "l_locks",
                          ![r].found =
                             SortSeats({s \in DOMAIN seats :
                                          /\ SeatApp(s) = req[r].appId
                                          /\ SeatEntity(s) = req[r].entityId
                                          /\ seats[s].status = "AVAILABLE"})]
    /\ UNCHANGED <<apps, orderCache, orders, now, seats, locks, reservations, bookings,
                   nextToken, nextBooking, syncs, lockLog>>

\* getAvailableSeats: bulkCheckLocks, then the locked seats are filtered out
ListLocks(r) ==
    /\ req[r].pc = "l_locks"
    /\ LET Free(s) == ~IsLocked(s) IN
         req' = [req EXCEPT ![r].pc = "done", ![r].result = "ok",
                            ![r].listing = SelectSeq(req[r].found, Free),
                            ![r].found = <<>>]
    /\ UNCHANGED <<apps, orderCache, orders, now, seats, locks, reservations, bookings,
                   nextToken, nextBooking, syncs, lockLog>>

\* GET /my-bookings: reads the user's bookings under the tenant
MyBookings(r) ==
    /\ req[r].pc = "m_read"
    /\ Finish(r, "ok", "bookings")
    /\ UNCHANGED <<apps, orderCache, orders, now, seats, locks, reservations, bookings,
                   nextToken, nextBooking, syncs, lockLog>>

\* PATCH /admin/apps/:appId with isActive
AdminSetActive(a, b) ==
    /\ a \in DOMAIN apps
    /\ apps[a].isActive # b
    /\ apps' = [apps EXCEPT ![a].isActive = b]
    /\ UNCHANGED <<orderCache, orders, now, seats, locks, reservations, bookings,
                   nextToken, nextBooking, req, syncs, lockLog>>

\* PATCH /admin/apps/:appId with allowedDomains
AdminSetDomains(a, ds) ==
    /\ a \in DOMAIN apps
    /\ apps[a].allowedDomains # ds
    /\ apps' = [apps EXCEPT ![a].allowedDomains = ds]
    /\ UNCHANGED <<orderCache, orders, now, seats, locks, reservations, bookings,
                   nextToken, nextBooking, req, syncs, lockLog>>

\* ------------------------------------------------------- externalUserAuth

\* Ids and header values are sequences of tokens; equal sequences spell
\* equal strings.
\* User collection: u1 is active, u2 is inactive
UserExists(id) == id \in {<<"u1">>, <<"u2">>}
UserActiveAny(id) == UserExists(id)
UserActive(id) == id = <<"u1">>

\* Authorization headers: none, a valid token of u1, an expired token of u1,
\* a valid token of the inactive u2
Bearers ==
    { NoBearer,
      [present |-> TRUE, ok |-> TRUE, userId |-> <<"u1">>],
      [present |-> TRUE, ok |-> FALSE, userId |-> <<"u1">>],
      [present |-> TRUE, ok |-> TRUE, userId |-> <<"u2">>] }

\* external user ids a tenant's backend declares; <<>> is an absent value
ExtIds == {<<"7">>, <<"eu", "_", "7">>}

\* tenants whose requests reach externalUserAuth, and how their appId reads
UserTenants == {"appA", "appA_eu"}

AppIdText(a) ==
    CASE a = "appA" -> <<"appA">>
      [] a = "appA_eu" -> <<"appA", "_", "eu">>

\* `ext_${req.app.appId}_${externalUserId}`
SynthId(a, ext) == <<"ext", "_">> \o AppIdText(a) \o <<"_">> \o ext

NoUser == [id |-> <<>>, externalId |-> <<>>, isExternal |-> FALSE]

\* externalUserAuth: the req.user it attaches, or NoUser when it throws
externalUserAuth(a, bearer, hdr, bodyExt, bodyUserId) ==
    IF bearer.present /\ bearer.ok /\ UserActive(bearer.userId)
      THEN [id |-> bearer.userId, externalId |-> <<>>, isExternal |-> FALSE]
    ELSE IF hdr # <<>>
      THEN [id |-> SynthId(a, hdr), externalId |-> hdr, isExternal |-> TRUE]
    ELSE IF bodyExt # <<>>
      THEN [id |-> SynthId(a, bodyExt), externalId |-> bodyExt, isExternal |-> TRUE]
    ELSE IF bodyUserId # <<>>
      THEN [id |-> SynthId(a, bodyUserId), externalId |-> bodyUserId,
            isExternal |-> TRUE]
    ELSE NoUser

\* a request that passed appAuth under tenant a reaches externalUserAuth
ArriveUser(r) ==
    /\ FirstIdle(r)
    /\ \E a \in UserTenants, op \in {"reserve", "release"}, b \in Bearers,
          h \in ExtIds \cup {<<>>}, e \in {<<>>, <<"7">>},
          i \in {<<>>, <<"eu", "_", "7">>}, t \in DOMAIN reservations \cup {Null} :
         /\ (op = "release") <=> (t # Null)
         /\ req' = [req EXCEPT ![r] =
                      [IdleReq EXCEPT !.op = op, !.pc = "user", !.appId = a,
                                      !.userId = <<>>, !.token = t,
                                      !.seatId = IF op = "reserve" THEN "s1" ELSE "none",
                                      !.bearer = b, !.extHeader = h, !.bodyExt = e,
                                      !.bodyUserId = i]]
    /\ UNCHANGED <<apps, orderCache, orders, now, seats, locks, reservations, bookings,
                   nextToken, nextBooking, syncs, lockLog>>

\* externalUserAuth runs; on success req.user is attached, the identification
\* inputs are not read again and next() runs the route handler
UserAuth(r) ==
    /\ req[r].pc = "user"
    /\ LET user == externalUserAuth(req[r].appId, req[r].bearer, req[r].extHeader,
                                     req[r].bodyExt, req[r].bodyUserId)
       IN IF user = NoUser
            THEN Finish(r, "AuthenticationError", "User identification required")
            ELSE req' = [req EXCEPT ![r].pc = FirstPc(req[r].op),
                                    ![r].userId = user.id,
                                    ![r].externalId = user.externalId,
                                    ![r].isExternal = user.isExternal,
                                    ![r].bearer = NoBearer, ![r].extHeader = <<>>,
                                    ![r].bodyExt = <<>>, ![r].bodyUserId = <<>>]
    /\ UNCHANGED <<apps, orderCache, orders, now, seats, locks, reservations, bookings,
                   nextToken, nextBooking, syncs, lockLog>>

\* ------------------------------------------------------------ environment

\* Time passes; Redis drops the keys whose time-to-live has elapsed.
TickKeepsKeys ==
    /\ now < MaxTime
    /\ now' = now + 1
    /\ UNCHANGED <<apps, orderCache, orders, seats, locks, reservations, bookings,
                   nextToken, nextBooking, req, syncs, lockLog>>

Tick ==
    /\ now < MaxTime
    /\ now' = now + 1
    /\ locks' = [s \in DOMAIN locks |->
                   IF locks[s].reservationToken # Null /\ locks[s].keyExp <= now + 1
                   THEN NoLock ELSE locks[s]]
    /\ UNCHANGED <<apps, orderCache, orders, seats, reservations, bookings, nextToken, nextBooking, req,
                   syncs, lockLog>>

\* POST /admin/sync-seats by the seat's tenant: the upsert $set writes
\* price and status: seat.status || 'AVAILABLE', and leaves bookedBy /
\* bookingId alone.
SyncSeats(s, st) ==
    /\ syncs < MaxSyncs
    /\ \E p \in {SeedPrice} :
         seats' = [seats EXCEPT ![s].status = st, ![s].price = p]
    /\ syncs' = syncs + 1
    /\ UNCHANGED <<apps, orderCache, orders, now, locks, reservations, bookings, nextToken, nextBooking, req,
                   lockLog>>

\* ---------------------------------------------------------- specifications
ReserveSteps ==
    \/ \E r \in DOMAIN req : ReserveFind(r)
    \/ \E r \in DOMAIN req : ReserveLock(r)
    \/ \E r \in DOMAIN req : ReserveSave(r)

ConfirmSteps ==
    \/ \E r \in DOMAIN req : ConfirmFind(r)
    \/ \E r \in DOMAIN req : ConfirmExpireSave(r)
    \/ \E r \in DOMAIN req : ConfirmExpireRelease(r)
    \/ \E r \in DOMAIN req : ConfirmVerify(r)
    \/ \E r \in DOMAIN req : ConfirmSeat(r)
    \/ \E r \in DOMAIN req : ConfirmPay(r)
    \/ \E r \in DOMAIN req : ConfirmCommit(r)
    \/ \E r \in DOMAIN req : ConfirmReleaseGet(r)
    \/ \E r \in DOMAIN req : ConfirmReleaseDel(r)

ReleaseSteps ==
    \/ \E r \in DOMAIN req : ReleaseFind(r)
    \/ \E r \in DOMAIN req : ReleaseGet(r)
    \/ \E r \in DOMAIN req : ReleaseDel(r)
    \/ \E r \in DOMAIN req : ReleaseSave(r)

NextEngine ==
    \/ \E r \in DOMAIN req : StartReserve(r)
    \/ \E r \in DOMAIN req : StartConfirm(r)
    \/ \E r \in DOMAIN req : StartRelease(r)
    \/ ReserveSteps
    \/ ConfirmSteps
    \/ ReleaseSteps
    \/ Tick

Next ==
    \/ NextEngine
    \/ \E s \in Seats, st \in {"AVAILABLE", "BOOKED"} : SyncSeats(s, st)

\* the engine alone: reserve, confirm, release and lock expiry
SpecEngine == Init /\ [][NextEngine]_vars

\* the engine plus the tenant seat sync
Spec == Init /\ [][Next]_vars

\* the lock service under its callers that take and give back locks:
\* reserve, release and expiry
NextLock ==
    \/ \E r \in DOMAIN req : StartReserve(r)
    \/ \E r \in DOMAIN req : StartRelease(r)
    \/ ReserveSteps
    \/ ReleaseSteps
    \/ Tick

InitLock ==
    /\ now = 0
    /\ seats = [s \in Seats |-> InitSeat]
    /\ locks = [s \in Seats |-> NoLock]
    /\ reservations = <<>>
    /\ bookings = {}
    /\ nextToken = 1
    /\ nextBooking = 1
    /\ req = [r \in 1..LockReqs |-> IdleReq]
    /\ syncs = 0
    /\ lockLog = <<>>
    /\ orderCache = <<>>
    /\ orders = {}
    /\ apps = AppRegistry

SpecLock == InitLock /\ [][NextLock]_vars

\* the reserve race: RaceN reserve calls by distinct users on seat s1, all in
\* flight at once; time passes only while no lock runs out
RaceSeat == "s1"

InitRace ==
    /\ now = 0
    /\ seats = [s \in Seats |-> InitSeat]
    /\ locks = [s \in Seats |-> NoLock]
    /\ reservations = <<>>
    /\ bookings = {}
    /\ nextToken = 1
    /\ nextBooking = 1
    /\ req = [r \in 1..RaceN |->
                [IdleReq EXCEPT !.op = "reserve", !.pc = "r_find", !.userId = r,
                                !.appId = SeatApp(RaceSeat), !.seatId = RaceSeat]]
    /\ syncs = 0
    /\ lockLog = <<>>
    /\ orderCache = <<>>
    /\ orders = {}
    /\ apps = AppRegistry

RaceTick == Tick /\ locks' = locks

NextRace ==
    \/ ReserveSteps
    \/ RaceTick

SpecRace == InitRace /\ [][NextRace]_vars

\* calls made one after another: a call arrives, and the clock moves, only
\* while no other call is in progress
Quiet == \A r \in DOMAIN req : req[r].pc \in {"idle", "done"}

InitSeq ==
    /\ now = 0
    /\ seats = [s \in Seats |-> InitSeat]
    /\ locks = [s \in Seats |-> NoLock]
    /\ reservations = <<>>
    /\ bookings = {}
    /\ nextToken = 1
    /\ nextBooking = 1
    /\ req = [r \in 1..SeqReqs |-> IdleReq]
    /\ syncs = 0
    /\ lockLog = <<>>
    /\ orderCache = <<>>
    /\ orders = {}
    /\ apps = AppRegistry

SeqTick == Quiet /\ Tick

NextSeq ==
    \/ \E r \in DOMAIN req : Quiet /\ StartReserveIn(r, Apps)
    \/ \E r \in DOMAIN req : Quiet /\ StartConfirmIn(r, Apps, SeqPaymentIds)
    \/ \E r \in DOMAIN req : Quiet /\ StartRelease(r)
    \/ ReserveSteps
    \/ ConfirmSteps
    \/ ReleaseSteps
    \/ SeqTick

SpecSeq == InitSeq /\ [][NextSeq]_vars

\* calls made one after another while the document store may fail a write
NextFault ==
    \/ \E r \in DOMAIN req : Quiet /\ StartReserve(r)
    \/ \E r \in DOMAIN req : Quiet /\ StartConfirm(r)
    \/ \E r \in DOMAIN req : Quiet /\ StartRelease(r)
    \/ ReserveSteps
    \/ ConfirmSteps
    \/ ReleaseSteps
    \/ SeqTick
    \/ \E r \in DOMAIN req : ReserveSaveFail(r)
    \/ \E r \in DOMAIN req, k \in 1..TxnSaves : ConfirmAbort(r, k)

SpecFault == InitSeq /\ [][NextFault]_vars

\* calls made one after another by users of the shared user pool, each
\* authenticated under either of two tenants
NextTenant ==
    \/ \E r \in DOMAIN req : Quiet /\ StartReserveIn(r, Tenants)
    \/ \E r \in DOMAIN req : Quiet /\ StartConfirmIn(r, Tenants, PaymentIds)
    \/ \E r \in DOMAIN req : Quiet /\ StartRelease(r)
    \/ ReserveSteps
    \/ ConfirmSteps
    \/ ReleaseSteps
    \/ SeqTick

SpecTenant == InitSeq /\ [][NextTenant]_vars

\* calls made one after another that also name seats and tokens the stores
\* do not hold, under either tenant
NextGuards ==
    \/ \E r \in DOMAIN req : Quiet /\ StartReserveOn(r, Tenants, SeatIds)
    \/ \E r \in DOMAIN req : Quiet /\ StartConfirm(r)
    \/ \E r \in DOMAIN req :
          Quiet /\ StartReleaseWith(r, DOMAIN reservations \cup {NoSuchToken})
    \/ ReserveSteps
    \/ ConfirmSteps
    \/ ReleaseSteps
    \/ SeqTick

SpecGuards == InitSeq /\ [][NextGuards]_vars

\* reservations made one after another, create-order calls in parallel
InitOrder ==
    /\ now = 0
    /\ seats = [s \in Seats |-> InitSeat]
    /\ locks = [s \in Seats |-> NoLock]
    /\ reservations = <<>>
    /\ bookings = {}
    /\ nextToken = 1
    /\ nextBooking = 1
    /\ req = [r \in 1..OrderReqs |-> IdleReq]
    /\ syncs = 0
    /\ lockLog = <<>>
    /\ orderCache = <<>>
    /\ orders = {}
    /\ apps = AppRegistry

NextOrder ==
    \/ \E r \in DOMAIN req : Quiet /\ StartReserve(r)
    \/ ReserveSteps
    \/ \E r \in DOMAIN req : StartOrder(r)
    \/ \E r \in DOMAIN req : OrderFind(r)
    \/ \E r \in DOMAIN req : OrderGet(r)
    \/ \E r \in DOMAIN req : OrderCreate(r)
    \/ \E r \in DOMAIN req : OrderSet(r)
    \/ Tick

SpecOrder == InitOrder /\ [][NextOrder]_vars

\* Requests that present tenant credentials, one after another; an admin
\* disables and enables the tenant between them.
InitAuth ==
    /\ now = 0
    /\ seats = [s \in Seats |-> InitSeat]
    /\ locks = [s \in Seats |-> NoLock]
    /\ reservations = <<>>
    /\ bookings = {}
    /\ nextToken = 1
    /\ nextBooking = 1
    /\ req = [r \in 1..AuthReqs |-> IdleReq]
    /\ syncs = 0
    /\ lockLog = <<>>
    /\ orderCache = <<>>
    /\ orders = {}
    /\ apps = [a \in Apps |-> AppRegistry[a]]

\* x-app-id and x-api-key values the requests carry
AuthAppIds == {"appA", "appX"}
AuthKeys == {"sk_live_A", "sk_live_bad"}

NextAuth ==
    \/ \E r \in DOMAIN req :
          Quiet /\ Arrive(r, AuthAppIds, AuthKeys, {NoOrigin}, TenantOps, {1})
    \/ \E r \in DOMAIN req : AuthFind(r)
    \/ \E r \in DOMAIN req : AuthKey(r)
    \/ \E r \in DOMAIN req : ListSeats(r)
    \/ \E r \in DOMAIN req : ListLocks(r)
    \/ \E r \in DOMAIN req : MyBookings(r)
    \/ \E r \in DOMAIN req : OrderFind(r)
    \/ \E r \in DOMAIN req : OrderGet(r)
    \/ \E r \in DOMAIN req : OrderCreate(r)
    \/ \E r \in DOMAIN req : OrderSet(r)
    \/ ReserveSteps
    \/ ConfirmSteps
    \/ ReleaseSteps
    \/ \E b \in BOOLEAN : Quiet /\ AdminSetActive("appA", b)
    \/ SeqTick

SpecAuth == InitAuth /\ [][NextAuth]_vars

\* Requests with valid credentials and an origin header; an admin edits the
\* tenant's allowedDomains between them.
NextOrigin ==
    \/ \E r \in DOMAIN req :
          Quiet /\ Arrive(r, {"appA"}, {"sk_live_A"}, OriginTexts \cup {NoOrigin},
                          {"list"}, Users)
    \/ \E r \in DOMAIN req : AuthFind(r)
    \/ \E r \in DOMAIN req : AuthKey(r)
    \/ \E r \in DOMAIN req : ListSeats(r)
    \/ \E r \in DOMAIN req : ListLocks(r)
    \/ \E ds \in DomainSets : Quiet /\ AdminSetDomains("appA", ds)

SpecOrigin == InitAuth /\ [][NextOrigin]_vars

\* reserve and confirm calls made one after another while the clock runs
\* freely, also between the steps of a call
NextClock ==
    \/ \E r \in DOMAIN req : Quiet /\ StartReserve(r)
    \/ \E r \in DOMAIN req : Quiet /\ StartConfirm(r)
    \/ ReserveSteps
    \/ ConfirmSteps
    \/ Tick

SpecClock == InitSeq /\ [][NextClock]_vars

\* Reserve, confirm and release calls made one after another; any call may
\* stall at any step for ever, only the clock is sure to advance.
InitLive ==
    /\ now = 0
    /\ seats = [s \in Seats |-> InitSeat]
    /\ locks = [s \in Seats |-> NoLock]
    /\ reservations = <<>>
    /\ bookings = {}
    /\ nextToken = 1
    /\ nextBooking = 1
    /\ req = [r \in 1..LiveReqs |-> IdleReq]
    /\ syncs = 0
    /\ lockLog = <<>>
    /\ orderCache = <<>>
    /\ orders = {}
    /\ apps = AppRegistry

NextLive ==
    \/ \E r \in DOMAIN req : Quiet /\ StartReserve(r)
    \/ \E r \in DOMAIN req : Quiet /\ StartConfirm(r)
    \/ \E r \in DOMAIN req : Quiet /\ StartRelease(r)
    \/ ReserveSteps
    \/ ConfirmSteps
    \/ ReleaseSteps
    \/ Tick

SpecLive == InitLive /\ [][NextLive]_vars /\ WF_vars(Tick)

\* a venue with two seats; reserve and confirm calls made one after another,
\* every confirm carrying the same payment id
InitPay ==
    /\ now = 0
    /\ seats = [s \in TwoSeats |-> InitSeat]
    /\ locks = [s \in TwoSeats |-> NoLock]
    /\ reservations = <<>>
    /\ bookings = {}
    /\ nextToken = 1
    /\ nextBooking = 1
    /\ req = [r \in 1..PayReqs |-> IdleReq]
    /\ syncs = 0
    /\ lockLog = <<>>
    /\ orderCache = <<>>
    /\ orders = {}
    /\ apps = AppRegistry

NextPay ==
    \/ \E r \in DOMAIN req : Quiet /\ StartReserveOn(r, Apps, TwoSeats)
    \/ \E r \in DOMAIN req : Quiet /\ StartConfirm(r)
    \/ ReserveSteps
    \/ ConfirmSteps
    \/ SeqTick

SpecPay == InitPay /\ [][NextPay]_vars

\* requests that identify their user, made one after another under two
\* tenants
InitUser ==
    /\ now = 0
    /\ seats = [s \in Seats |-> InitSeat]
    /\ locks = [s \in Seats |-> NoLock]
    /\ reservations = <<>>
    /\ bookings = {}
    /\ nextToken = 1
    /\ nextBooking = 1
    /\ req = [r \in 1..UserReqs |-> IdleReq]
    /\ syncs = 0
    /\ lockLog = <<>>
    /\ orderCache = <<>>
    /\ orders = {}
    /\ apps = AppRegistry

NextUser ==
    \/ \E r \in DOMAIN req : Quiet /\ ArriveUser(r)
    \/ \E r \in DOMAIN req : UserAuth(r)
    \/ ReserveSteps
    \/ ReleaseSteps
    \/ SeqTick

SpecUser == InitUser /\ [][NextUser]_vars

\* a venue with two seats: reserve and confirm calls for seat s1 made one
\* after another, seat listings for user 1 at any time
InitList ==
    /\ now = 0
    /\ seats = [s \in TwoSeats |-> InitSeat]
    /\ locks = [s \in TwoSeats |-> NoLock]
    /\ reservations = <<>>
    /\ bookings = {}
    /\ nextToken = 1
    /\ nextBooking = 1
    /\ req = [r \in 1..ListReqs |-> IdleReq]
    /\ syncs = 0
    /\ lockLog = <<>>
    /\ orderCache = <<>>
    /\ orders = {}
    /\ apps = AppRegistry

NextList ==
    \/ \E r \in DOMAIN req : StartList(r, {1})
    \/ \E r \in DOMAIN req : ListSeats(r)
    \/ \E r \in DOMAIN req : ListLocks(r)
    \/ \E r \in DOMAIN req : Quiet /\ StartReserve(r)
    \/ \E r \in DOMAIN req : Quiet /\ StartConfirm(r)
    \/ ReserveSteps
    \/ ConfirmSteps
    \/ SeqTick

SpecList == InitList /\ [][NextList]_vars

\* reserve calls and confirm calls that carry Razorpay callback fields, made
\* one after another
NextSigned ==
    \/ \E r \in DOMAIN req : Quiet /\ StartReserve(r)
    \/ \E r \in DOMAIN req : Quiet /\ StartConfirmSigned(r)
    \/ \E r \in DOMAIN req : ConfirmSignature(r)
    \/ ReserveSteps
    \/ ConfirmSteps
    \/ SeqTick

SpecSigned == InitSeq /\ [][NextSigned]_vars

\* reserve and release calls made one after another
InitRelease ==
    /\ now = 0
    /\ seats = [s \in Seats |-> InitSeat]
    /\ locks = [s \in Seats |-> NoLock]
    /\ reservations = <<>>
    /\ bookings = {}
    /\ nextToken = 1
    /\ nextBooking = 1
    /\ req = [r \in 1..RelReqs |-> IdleReq]
    /\ syncs = 0
    /\ lockLog = <<>>
    /\ orderCache = <<>>
    /\ orders = {}
    /\ apps = AppRegistry

NextRelease ==
    \/ \E r \in DOMAIN req : Quiet /\ StartReserve(r)
    \/ \E r \in DOMAIN req : Quiet /\ StartRelease(r)
    \/ ReserveSteps
    \/ ReleaseSteps
    \/ SeqTick

SpecRelease == InitRelease /\ [][NextRelease]_vars

\* ------------------------------------------------------------------ claims

BookingsOfSeat(s) == {b \in bookings : b.seatId = s}
BookingsOfToken(t) == {b \in bookings : b.reservationToken = t}
ActiveOfSeat(s) == {t \in DOMAIN reservations :
                      reservations[t].seatId = s /\ reservations[t].status = "ACTIVE"}

\* a granted lock is live until Redis' time-to-live runs out or a DEL removes it
LiveGrant(t) == ~lockLog[t].deleted /\ now < lockLog[t].keyExp
LiveGrantsOfSeat(s) == {t \in DOMAIN lockLog : lockLog[t].seatId = s /\ LiveGrant(t)}

\* C1: no double booking: every seat is referenced by at most one Booking,
\* and it is BOOKED iff exactly one Booking references it (reserve, confirm,
\* release and lock expiry only).
C1_NoDoubleBooking ==
    \A s \in Seats :
        /\ Cardinality(BookingsOfSeat(s)) <= 1
        /\ seats[s].status = "BOOKED" <=> Cardinality(BookingsOfSeat(s)) = 1

\* C2: lock acquisition is atomic: of the locks acquireLock has granted on a
\* seat at most one is live (not deleted, time-to-live not run out) at any
\* instant, and the store holds exactly that one.
C2_AtMostOneLiveLock ==
    \A s \in Seats :
        /\ Cardinality(LiveGrantsOfSeat(s)) <= 1
        /\ LiveGrantsOfSeat(s) =
             IF locks[s].reservationToken = Null THEN {} ELSE {locks[s].reservationToken}

\* C2 witness: an acquire was refused while another call's lock was live
C2_Witness ==
    \E r \in DOMAIN req, s \in Seats :
        /\ req[r].op = "reserve" /\ req[r].seatId = s
        /\ req[r].result = "SeatLockError"
        /\ Cardinality(LiveGrantsOfSeat(s)) = 1

RaceDone == \A r \in DOMAIN req : req[r].pc = "done"
RaceWinners == {r \in DOMAIN req : req[r].result = "ok"}

C4_OneActiveReservation ==
    \A s \in Seats : Cardinality(ActiveOfSeat(s)) <= 1

\* C5: a reservation token is consumed by confirmation at most once: at most
\* one Booking carries it and at most one confirm call returns a booking.
C5_TokenConfirmedOnce ==
    \A t \in DOMAIN reservations :
        /\ Cardinality(BookingsOfToken(t)) <= 1
        /\ Cardinality({r \in DOMAIN req : req[r].op = "confirm" /\ req[r].token = t
                                            /\ req[r].bid # Null}) <= 1

\* C6: every Booking's seat is BOOKED and the seat's bookingId is the
\* Booking's id (the transaction is one step, so every state is outside it).
C6_BookingSeatBooked ==
    \A b \in bookings :
        /\ seats[b.seatId].status = "BOOKED"
        /\ seats[b.seatId].bookingId = b.id

\* C7: a CONFIRMED Reservation has exactly one Booking with its token; an
\* EXPIRED or RELEASED one has none.
C7_ReservationBookings ==
    \A t \in DOMAIN reservations :
        /\ reservations[t].status = "CONFIRMED" => Cardinality(BookingsOfToken(t)) = 1
        /\ reservations[t].status \in {"EXPIRED", "RELEASED"} => BookingsOfToken(t) = {}

\* C8: reservation status transitions are one-way: a status changes only
\* from ACTIVE.
C8_OneWayTransitions ==
    [][\A t \in DOMAIN reservations :
          reservations'[t].status # reservations[t].status
             => reservations[t].status = "ACTIVE"]_vars

\* C9: Release races Confirm on an ACTIVE, unexpired reservation of their
\* common owner: exactly one of the two succeeds; if confirm wins a booking
\* exists and release fails with Conflict, if release wins there is no
\* booking and confirm fails with SeatLockError or Conflict.
C9_ReleaseRacesConfirm ==
    \A x \in DOMAIN req, c \in DOMAIN req :
        ( /\ req[x].op = "release" /\ req[c].op = "confirm"
          /\ req[x].pc = "done" /\ req[c].pc = "done"
          /\ req[x].token = req[c].token
          /\ req[x].rstatus = "ACTIVE" /\ req[c].rstatus = "ACTIVE"
          /\ ~isExpired(reservations[req[x].token]) )
        => \/ /\ req[c].result = "ok" /\ req[x].result = "Conflict"
              /\ BookingsOfToken(req[c].token) # {}
           \/ /\ req[x].result = "ok"
              /\ req[c].result \in {"SeatLockError", "Conflict"}
              /\ BookingsOfToken(req[c].token) = {}

\* C10: the confirm transaction is committed only by a request that at the
\* commit owns an ACTIVE reservation for the seat and a live lock on the seat
\* carrying that reservation's token.
C10_CommitHoldsLockAndReservation ==
    [][\A r \in DOMAIN req :
          (req[r].pc = "c_txn" /\ req'[r].pc = "c_release")
             => /\ reservations[req[r].token].status = "ACTIVE"
                /\ reservations[req[r].token].userId = req[r].userId
                /\ VerifyLock(req[r].seatId, req[r].token, req[r].userId)]_vars

\* C11: releaseLock called with an expected token never deletes a lock whose
\* stored token differs from it: at the delete of releaseSeat's and of
\* confirmBooking's release the key is absent or carries the caller's token.
C11_ReleaseDeletesOwnLock ==
    [][\A r \in DOMAIN req :
          (req[r].pc \in {"x_del", "c_del"} /\ req'[r].pc # req[r].pc)
             => locks[req[r].seatId].reservationToken \in {Null, req[r].token}]_vars

\* C12: compensating release on a failed reserve: when reserveSeat has
\* acquired the lock and the Reservation insert fails, no lock acquired by
\* that call remains once the error is returned.
C12_FailedReserveReleasesLock ==
    \A r \in DOMAIN req :
        (req[r].op = "reserve" /\ req[r].pc = "done" /\ req[r].result = "Error")
           => locks[req[r].seatId].reservationToken # req[r].token

\* C13: a seat's durable status changes only from AVAILABLE to BOOKED and only
\* in the commit of a confirm transaction on that seat; reserve, release,
\* lock expiry and the tenant seat sync never change it.
C13_SeatStatusByConfirmOnly ==
    [][\A s \in Seats :
          seats'[s].status # seats[s].status
             => /\ seats[s].status = "AVAILABLE" /\ seats'[s].status = "BOOKED"
                /\ \E r \in DOMAIN req :
                      /\ req[r].pc = "c_txn" /\ req'[r].pc = "c_release"
                      /\ req[r].seatId = s]_vars

\* payment ids of the two accepted formats
WellFormedIds == {"pay_1", "PAY-OK-1"}

\* the call is the owner's confirm of an ACTIVE, unexpired reservation whose
\* lock is live, with a well-formed payment id
HappyCall(r) ==
    /\ req[r].op = "confirm"
    /\ req[r].call.status = "ACTIVE"
    /\ req[r].call.owner = req[r].userId
    /\ ~req[r].call.expired
    /\ req[r].call.lockOk
    /\ req[r].paymentId \in WellFormedIds

Returns(r) == req[r].pc # "done" /\ req'[r].pc = "done"

\* C14: happy-path confirm: such a call returns a booking with paymentStatus
\* SUCCESS and amount = the seat's price; afterwards the seat is BOOKED with
\* bookedBy = the user, the reservation is CONFIRMED and the seat has no lock.
C14_HappyPathConfirm ==
    [][\A r \in DOMAIN req :
          (HappyCall(r) /\ Returns(r))
             => LET s == req[r].seatId
                    t == req[r].token
                IN  /\ req'[r].result = "ok"
                    /\ \E b \in bookings' :
                          /\ b.id = req'[r].bid
                          /\ b.reservationToken = t /\ b.userId = req[r].userId
                          /\ b.seatId = s
                          /\ b.paymentStatus = "SUCCESS"
                          /\ b.paymentId = req[r].paymentId
                          /\ b.amount = seats'[s].price
                    /\ seats'[s].status = "BOOKED"
                    /\ seats'[s].bookedBy = req[r].userId
                    /\ reservations'[t].status = "CONFIRMED"
                    /\ locks'[s] = NoLock]_vars

\* C14 witness: a confirm with a payment id of the simulated format has
\* returned its booking
C14_Witness ==
    \E r \in DOMAIN req :
        /\ req[r].op = "confirm" /\ req[r].pc = "done" /\ req[r].result = "ok"
        /\ req[r].paymentId = "PAY-OK-1"
        /\ \E b \in bookings : b.id = req[r].bid /\ b.amount = SeedPrice
        /\ seats[req[r].seatId].status = "BOOKED"
        /\ locks[req[r].seatId] = NoLock

\* the call is the owner's confirm of an ACTIVE reservation whose expiresAt
\* has passed, on a seat that is AVAILABLE
ExpiredCall(r) ==
    /\ req[r].op = "confirm"
    /\ req[r].call.status = "ACTIVE"
    /\ req[r].call.owner = req[r].userId
    /\ req[r].call.expired
    /\ req[r].call.seat = "AVAILABLE"

\* request q is the call made right after call r: a reserve of r's seat by
\* another user
ReserveAfter(r, q) ==
    /\ q = r + 1
    /\ req[r].op = "confirm" /\ req[r].pc = "done"
    /\ req[r].detail = "Reservation has expired"
    /\ req[q].op = "reserve"
    /\ req[q].seatId = req[r].seatId
    /\ req[q].userId # req[r].userId

\* C15: confirm after the TTL: such a call fails with Conflict (expired), the
\* reservation becomes EXPIRED, no booking is created, the seat stays
\* AVAILABLE and unlocked, and the reserve of that seat by another user made
\* right after it succeeds.
C15_ConfirmAfterExpiry ==
    [][/\ \A r \in DOMAIN req :
            (ExpiredCall(r) /\ Returns(r))
               => LET s == req[r].seatId
                      t == req[r].token
                  IN  /\ req'[r].result = "Conflict"
                      /\ req'[r].detail = "Reservation has expired"
                      /\ reservations'[t].status = "EXPIRED"
                      /\ bookings' = bookings
                      /\ \A b \in bookings' : b.reservationToken # t
                      /\ seats'[s].status = "AVAILABLE"
                      /\ locks'[s] = NoLock
       /\ \A r \in DOMAIN req, q \in DOMAIN req :
            (ReserveAfter(r, q) /\ Returns(q)
               /\ seats[req[r].seatId].status = "AVAILABLE")
               => req'[q].result = "ok"]_vars

\* C15 witness: a confirm failed as expired and the next call, a reserve of
\* the seat by another user, succeeded
C15_Witness ==
    \E r \in DOMAIN req, q \in DOMAIN req :
        /\ ReserveAfter(r, q)
        /\ req[r].result = "Conflict"
        /\ reservations[req[r].token].status = "EXPIRED"
        /\ req[q].pc = "done" /\ req[q].result = "ok"

\* the call is a confirm under a tenant other than the one the reservation
\* was created under, made while the reservation is ACTIVE and its lock live
CrossTenantCall(r) ==
    LET t == req[r].token
        res == reservations[t]
    IN  /\ req[r].op = "confirm"
        /\ req[r].pc # "done"
        /\ req[r].appId # res.appId
        /\ res.status = "ACTIVE"
        /\ locks[res.seatId].reservationToken = t
        /\ locks[res.seatId].expiresAt > now

\* C16: cross-tenant confirm: such a call fails with Conflict, and none of its
\* steps changes the seat, the lock, the reservation or the bookings.
C16_CrossTenantConfirm ==
    [][\A r \in DOMAIN req :
          (CrossTenantCall(r) /\ req'[r] # req[r])
             => /\ seats' = seats /\ locks' = locks
                /\ reservations' = reservations /\ bookings' = bookings
                /\ req'[r].pc = "done" => req'[r].result = "Conflict"]_vars

\* a confirm on r's token has already returned a booking
ConfirmedBefore(r) ==
    \E c \in DOMAIN req :
        /\ c # r
        /\ req[c].op = "confirm" /\ req[c].pc = "done" /\ req[c].result = "ok"
        /\ req[c].token = req[r].token

SamePairTwice(c, r) ==
    /\ c < r
    /\ req[c].op = "confirm" /\ req[c].pc = "done" /\ req[c].result = "ok"
    /\ req[r].op = "confirm" /\ req[r].pc = "done"
    /\ req[r].token = req[c].token
    /\ req[r].paymentId = req[c].paymentId
    /\ req[r].userId = req[c].userId

\* C18 as stated: confirming the same (reservationToken, paymentId) pair a
\* second time returns the same booking that the first confirm returned.
C18_ConfirmIdempotent ==
    \A c \in DOMAIN req, r \in DOMAIN req :
        SamePairTwice(c, r) => req[r].result = "ok" /\ req[r].bid = req[c].bid

\* C18 amended: confirming the same (reservationToken, paymentId) pair a
\* second time returns no booking: it fails with Conflict, and the booking
\* the first confirm returned is still stored under the token and payment id.
C18_SecondConfirmRejected ==
    \A c \in DOMAIN req, r \in DOMAIN req :
        SamePairTwice(c, r)
           => /\ req[r].result = "Conflict"
              /\ req[r].bid = Null
              /\ \E b \in bookings :
                    /\ b.id = req[c].bid
                    /\ b.reservationToken = req[c].token
                    /\ b.paymentId = req[c].paymentId

\* C18 witness: the same pair was confirmed twice
C18_Witness ==
    \E c \in DOMAIN req, r \in DOMAIN req :
        SamePairTwice(c, r) /\ req[r].result = "Conflict"

\* the call is the owner's confirm of an ACTIVE, unexpired reservation whose
\* lock is live, on an AVAILABLE seat, with a payment id of neither format
BadPaymentCall(r) ==
    /\ req[r].op = "confirm"
    /\ req[r].pc # "done"
    /\ req[r].call.status = "ACTIVE"
    /\ req[r].call.owner = req[r].userId
    /\ ~req[r].call.expired
    /\ req[r].call.lockOk
    /\ req[r].call.seat = "AVAILABLE"
    /\ req[r].paymentId \notin WellFormedIds

\* call q is the retry made right after call r failed on its payment id: the
\* same user's confirm of the same token, within the TTL, well-formed id
RetryAfter(r, q) ==
    /\ q = r + 1
    /\ req[r].op = "confirm" /\ req[r].pc = "done"
    /\ req[r].result = "PaymentError"
    /\ req[q].token = req[r].token
    /\ req[q].userId = req[r].userId

\* C19: when payment verification fails the call fails with PaymentError and
\* changes nothing: the lock is still held with the same token, the
\* reservation is ACTIVE, the seat AVAILABLE, no booking exists; the retry
\* with a well-formed payment id within the TTL returns a booking.
C19_PaymentFailureKeepsHold ==
    [][/\ \A r \in DOMAIN req :
            (BadPaymentCall(r) /\ req'[r] # req[r])
               => LET s == req[r].seatId
                      t == req[r].token
                  IN  /\ seats' = seats /\ locks' = locks
                      /\ reservations' = reservations /\ bookings' = bookings
                      /\ req'[r].pc = "done"
                           => /\ req'[r].result = "PaymentError"
                              /\ locks'[s].reservationToken = t
                              /\ locks'[s].userId = req[r].userId
                              /\ reservations'[t].status = "ACTIVE"
                              /\ seats'[s].status = "AVAILABLE"
                              /\ \A b \in bookings' : b.reservationToken # t
       /\ \A r \in DOMAIN req, q \in DOMAIN req :
            (RetryAfter(r, q) /\ HappyCall(q) /\ Returns(q))
               => /\ req'[q].result = "ok"
                  /\ \E b \in bookings' : b.id = req'[q].bid]_vars

\* C19 witness: a confirm failed with PaymentError and the retry with a
\* well-formed payment id returned a booking
C19_Witness ==
    \E r \in DOMAIN req, q \in DOMAIN req :
        /\ RetryAfter(r, q)
        /\ req[r].paymentId = "PAY-123"
        /\ req[q].op = "confirm" /\ req[q].pc = "done" /\ req[q].result = "ok"
        /\ req[q].paymentId \in WellFormedIds

\* C20: confirm transaction atomicity: when a save inside the transaction
\* fails, the call returns the error and none of the transaction's writes is
\* visible: the seat is AVAILABLE with no bookedBy / bookingId, no Booking
\* carries the token, the reservation is ACTIVE, and the lock is as it was.
C20_AbortLeavesNoWrites ==
    [][\A r \in DOMAIN req :
          (req[r].pc = "c_txn" /\ req'[r].pc = "done")
             => LET s == req[r].seatId
                    t == req[r].token
                IN  /\ req'[r].result = "Error"
                    /\ seats' = seats /\ bookings' = bookings
                    /\ reservations' = reservations
                    /\ locks' = locks
                    /\ seats'[s].status = "AVAILABLE"
                    /\ seats'[s].bookedBy = Null /\ seats'[s].bookingId = Null
                    /\ \A b \in bookings' : b.reservationToken # t
                    /\ reservations'[t].status = "ACTIVE"]_vars

\* C20 witness: a confirm whose transaction was aborted has returned its
\* error; its lock is still stored
C20_Witness ==
    \E r \in DOMAIN req :
        /\ req[r].op = "confirm" /\ req[r].pc = "done"
        /\ req[r].result = "Error" /\ req[r].detail = "transaction aborted"
        /\ locks[req[r].seatId].reservationToken = req[r].token
        /\ reservations[req[r].token].status = "ACTIVE"

\* C21: once the confirm transaction has committed, confirmBooking returns
\* the booking: whatever the lock store holds after the commit (the lock
\* expired, the seat locked again by another user), the call does not end in
\* an error.
C21_CommittedConfirmReturnsBooking ==
    [][\A r \in DOMAIN req :
          (req[r].pc \in {"c_release", "c_del"} /\ req'[r].pc = "done")
             => /\ req'[r].result = "ok"
                /\ \E b \in bookings' : b.id = req'[r].bid]_vars

\* the call is the owner's release of a reservation that is already RELEASED
ReReleaseCall(r) ==
    /\ req[r].op = "release"
    /\ req[r].pc # "done"
    /\ reservations[req[r].token].status = "RELEASED"
    /\ reservations[req[r].token].userId = req[r].userId

\* call q is the release, by the same user, of the token that call r, the
\* call right before it, reserved
ReleaseAfterReserve(r, q) ==
    /\ q = r + 1
    /\ req[r].op = "reserve" /\ req[r].pc = "done" /\ req[r].result = "ok"
    /\ req[q].op = "release"
    /\ req[q].token = req[r].token
    /\ req[q].userId = req[r].userId

\* C22: reserve then release of the token by the same user leaves the seat
\* AVAILABLE with no lock and the reservation RELEASED; a release of an
\* already RELEASED token returns success and none of its steps changes the
\* reservation, the lock store or the seat.
C22_ReleaseIdempotent ==
    [][/\ \A r \in DOMAIN req, q \in DOMAIN req :
            (ReleaseAfterReserve(r, q) /\ Returns(q))
               => /\ req'[q].result = "ok"
                  /\ seats'[req[r].seatId].status = "AVAILABLE"
                  /\ locks'[req[r].seatId] = NoLock
                  /\ reservations'[req[r].token].status = "RELEASED"
       /\ \A r \in DOMAIN req :
            (ReReleaseCall(r) /\ req'[r] # req[r])
               => /\ reservations' = reservations /\ locks' = locks /\ seats' = seats
                  /\ req'[r].pc = "done" => req'[r].result = "ok"]_vars

\* the call is the owner's release of a reservation that is not CONFIRMED
OwnerRelease(r) ==
    /\ req[r].op = "release"
    /\ req[r].pc # "done"
    /\ reservations[req[r].token].userId = req[r].userId
    /\ reservations[req[r].token].status # "CONFIRMED"

\* C23: the owner's release of a reservation that is not CONFIRMED succeeds
\* and leaves it RELEASED whatever the lock store holds for the seat; a lock
\* that carries another token is left in place.
C23_OwnerReleaseSucceeds ==
    [][\A r \in DOMAIN req :
          (OwnerRelease(r) /\ Returns(r))
             => LET s == reservations[req[r].token].seatId IN
                /\ req'[r].result = "ok"
                /\ reservations'[req[r].token].status = "RELEASED"
                /\ locks[s].reservationToken \notin {Null, req[r].token}
                     => locks' = locks]_vars

\* the three stores a release may touch are left as they are
ReleaseFrame == locks' = locks /\ reservations' = reservations /\ seats' = seats

\* C24: releaseSeat is rejected with NotFound when the token is unknown and
\* with Conflict when the requester is not the reservation's user or the
\* reservation is CONFIRMED; a rejected call leaves the lock store, the
\* reservation and the seat unchanged.
C24_ReleaseRejections ==
    [][\A r \in DOMAIN req :
          (req[r].op = "release" /\ req[r].pc = "x_find" /\ req'[r] # req[r])
             => LET t == req[r].token IN
                IF t \notin DOMAIN reservations
                  THEN /\ req'[r].pc = "done" /\ req'[r].result = "NotFound"
                       /\ ReleaseFrame
                ELSE (reservations[t].userId # req[r].userId
                        \/ reservations[t].status = "CONFIRMED")
                      => /\ req'[r].pc = "done" /\ req'[r].result = "Conflict"
                         /\ ReleaseFrame]_vars

\* C24 witness: the owner's release of a CONFIRMED reservation was rejected
C24_Witness ==
    \E r \in DOMAIN req :
        /\ req[r].op = "release" /\ req[r].pc = "done"
        /\ req[r].result = "Conflict"
        /\ reservations[req[r].token].userId = req[r].userId
        /\ reservations[req[r].token].status = "CONFIRMED"

\* C25: reserveSeat preconditions: a missing seat yields NotFound, a seat of
\* another tenant Conflict, a seat that is not AVAILABLE Conflict; in each
\* case the call ends there: no lock is acquired, no Reservation row created.
C25_ReservePreconditions ==
    [][\A r \in DOMAIN req :
          (req[r].op = "reserve" /\ req[r].pc = "r_find" /\ req'[r] # req[r])
             => LET s == req[r].seatId IN
                IF s \notin Seats
                  THEN /\ req'[r].pc = "done" /\ req'[r].result = "NotFound"
                       /\ locks' = locks /\ reservations' = reservations
                       /\ lockLog' = lockLog
                ELSE (SeatApp(s) # req[r].appId \/ seats[s].status # "AVAILABLE")
                      => /\ req'[r].pc = "done" /\ req'[r].result = "Conflict"
                         /\ locks' = locks /\ reservations' = reservations
                         /\ lockLog' = lockLog]_vars

\* C25 witness: a reserve of a BOOKED seat under the seat's own tenant was
\* rejected
C25_Witness ==
    \E r \in DOMAIN req :
        /\ req[r].op = "reserve" /\ req[r].pc = "done"
        /\ req[r].result = "Conflict"
        /\ req[r].seatId \in Seats
        /\ req[r].appId = SeatApp(req[r].seatId)
        /\ seats[req[r].seatId].status = "BOOKED"
        /\ req[r].token = Null

\* C27: create-order is idempotent by reservationToken: calls with the same
\* token, sequential or concurrent, return the same order id, and at most
\* one order is ever created per reservationToken.
C27_CreateOrderIdempotent ==
    /\ \A r, q \in DOMAIN req :
          (/\ req[r].op = "order" /\ req[q].op = "order"
           /\ req[r].pc = "done" /\ req[q].pc = "done"
           /\ req[r].result = "ok" /\ req[q].result = "ok"
           /\ req[r].token = req[q].token)
             => req[r].orderId = req[q].orderId
    /\ \A o1, o2 \in orders : o1.receipt = o2.receipt => o1.id = o2.id

\* the tenant named by the request is unknown or disabled, or the key is wrong
BadTenant(r) ==
    \/ req[r].appId \notin DOMAIN apps
    \/ ~apps[req[r].appId].isActive
    \/ apps[req[r].appId].apiKeyHash # <<"$2a$10$", req[r].apiKey>>

\* the stores of the engine
EngineFrame ==
    /\ locks' = locks /\ reservations' = reservations /\ seats' = seats
    /\ bookings' = bookings /\ orders' = orders /\ orderCache' = orderCache

\* C29: a request of any tenant-scoped operation that names an unknown or
\* disabled tenant, or carries a wrong secret, ends in AuthenticationError
\* inside appAuth: the route handler never starts and no lock, reservation,
\* seat or booking changes.
C29_BadTenantRejected ==
    [][\A r \in DOMAIN req :
          (/\ req[r].op \in TenantOps
           /\ req[r].pc \in {"auth", "auth_key"}
           /\ BadTenant(r)
           /\ req'[r] # req[r])
             => /\ req'[r].pc \in {"auth_key", "done"}
                /\ req[r].pc = "auth_key" => req'[r].pc = "done"
                /\ req'[r].pc = "done" => req'[r].result = "AuthenticationError"
                /\ EngineFrame]_vars

\* C29 witness: a request with the right key for a disabled tenant was
\* rejected, and so was one with a wrong key for an active tenant
C29_Witness ==
    /\ \E r \in DOMAIN req :
          /\ req[r].pc = "done" /\ req[r].result = "AuthenticationError"
          /\ req[r].appId \in DOMAIN apps
          /\ ~apps[req[r].appId].isActive
          /\ req[r].apiKey = ApiKeyOf[req[r].appId]
    /\ \E r \in DOMAIN req :
          /\ req[r].pc = "done" /\ req[r].result = "AuthenticationError"
          /\ req[r].appId \in DOMAIN apps
          /\ req[r].apiKey # ApiKeyOf[req[r].appId]

\* host h ends with the entry d
EndsWith(h, d) == Len(d) <= Len(h) /\ SubSeq(h, Len(h) - Len(d) + 1, Len(h)) = d

\* the origins the rule admits: wildcard, or a host equal to an entry or
\* ending with one
OriginAdmitted(allowed, o) ==
    \/ <<"*">> \in allowed
    \/ /\ Len(o) >= 2 /\ o[1] = "https://"
       /\ \E d \in allowed : hostname(o) = d \/ EndsWith(hostname(o), d)

\* C30: when the tenant has a non-empty allowed-origins set and the request
\* carries an origin, an origin whose host neither equals nor ends with an
\* allowed entry, with no wildcard entry, is rejected with
\* AuthorizationError.
C30_OriginCheck ==
    [][\A r \in DOMAIN req :
          (/\ req[r].pc = "auth_key"
           /\ req[r].app.apiKeyHash = <<"$2a$10$", req[r].apiKey>>
           /\ req[r].app.allowedDomains # {}
           /\ req[r].origin # NoOrigin
           /\ ~OriginAdmitted(req[r].app.allowedDomains, req[r].origin)
           /\ req'[r] # req[r])
             => /\ req'[r].pc = "done"
                /\ req'[r].result = "AuthorizationError"]_vars

\* C26: verifyLock answers true exactly when a lock exists for the seat, its
\* token and userId equal the ones given and its expiresAt is strictly later
\* than now; at now = expiresAt it answers false, and a confirm issued
\* exactly at expiresAt does not succeed.
C26_VerifyLockStrict ==
    [][\A r \in DOMAIN req :
          /\ (req[r].pc = "c_verify" /\ req'[r] # req[r])
                => LET l == locks[req[r].seatId]
                       holds == /\ l # NoLock
                                /\ l.reservationToken = req[r].token
                                /\ l.userId = req[r].userId
                                /\ ~(l.expiresAt <= now)
                   IN /\ req'[r].pc = "c_seat" <=> holds
                      /\ ~holds => /\ req'[r].pc = "done"
                                   /\ req'[r].result = "SeatLockError"
          /\ (req[r].op = "confirm" /\ req[r].call.atExpiry /\ Returns(r))
                => req'[r].result # "ok"]_vars

\* C26 witness: a confirm was refused while the caller's own lock was still
\* stored with expiresAt = now
C26_Witness ==
    \E r \in DOMAIN req :
        /\ req[r].op = "confirm" /\ req[r].pc = "done"
        /\ req[r].result = "SeatLockError"
        /\ LET l == locks[reservations[req[r].token].seatId] IN
             /\ l.reservationToken = req[r].token
             /\ l.userId = req[r].userId
             /\ l.expiresAt = now

\* C28: a lock never outlives its TTL: no key is stored at or after its
\* expiry time, and every acquired lock whose TTL ends within the clock's
\* range eventually disappears although no request is obliged to act.
C28_LockDisappears ==
    /\ [](\A s \in Seats : locks[s] # NoLock => now < locks[s].keyExp)
    /\ \A s \in Seats, t \in 1..(LiveReqs + 1) :
          (locks[s].reservationToken = t /\ locks[s].keyExp <= MaxTime)
             ~> (locks[s].reservationToken # t)

\* C28 witness: a granted lock is gone although nothing deleted it, and its
\* seat is AVAILABLE and unlocked again
C28_Witness ==
    \E t \in DOMAIN lockLog :
        /\ ~lockLog[t].deleted
        /\ locks[lockLog[t].seatId] = NoLock
        /\ seats[lockLog[t].seatId].status = "AVAILABLE"
        /\ now >= lockLog[t].keyExp

\* C35: a payment reference is consumed by at most one booking: no two
\* Bookings carry the same paymentId.
C35_PaymentIdUsedOnce ==
    \A b1, b2 \in bookings : b1.paymentId = b2.paymentId => b1.id = b2.id

\* C38: every Booking is attributed to the tenant that owns its seat and
\* that created its reservation, whichever tenant's credentials the confirm
\* request was sent with.
C38_BookingTenant ==
    \A b \in bookings :
        /\ b.appId = SeatApp(b.seatId)
        /\ b.appId = reservations[b.reservationToken].appId

\* C39: handling an expired reservation in confirmBooking never removes a
\* lock that belongs to a different reservation: the steps of a confirm that
\* finds its reservation expired leave every lock stored under another token
\* in place.
C39_ExpiredConfirmKeepsOthersLock ==
    [][\A r \in DOMAIN req :
          (/\ req[r].op = "confirm"
           /\ req[r].pc \in {"c_expsave", "c_exprel"}
           /\ req'[r] # req[r])
             => \A s \in DOMAIN locks :
                    locks[s].reservationToken \notin {Null, req[r].token}
                       => locks'[s] = locks[s]]_vars

\* C40: no reservation is ever created on a booked seat: whenever reserveSeat
\* acquires the lock of a seat, the seat's durable status is AVAILABLE at
\* that moment.
C40_NoLockOnBookedSeat ==
    [][\A r \in DOMAIN req :
          (/\ req[r].op = "reserve"
           /\ req[r].pc = "r_lock"
           /\ locks'[req[r].seatId] # locks[req[r].seatId]
           /\ locks'[req[r].seatId].userId = req[r].userId
           /\ locks'[req[r].seatId].reservationToken = nextToken)
             => seats[req[r].seatId].status = "AVAILABLE"]_vars

\* the request carries a valid bearer token of an existing active user
BearerApplies(r) ==
    /\ req[r].bearer.present /\ req[r].bearer.ok
    /\ req[r].bearer.userId = <<"u1">>

\* the external id the request declares first: header, body object, body field
DeclaredExt(r) ==
    IF req[r].extHeader # <<>> THEN req[r].extHeader
    ELSE IF req[r].bodyExt # <<>> THEN req[r].bodyExt
    ELSE req[r].bodyUserId

\* C31: user identification tries the bearer token of an existing active
\* user, then the external-user header, then the body fields, and uses the
\* first that applies; a request with none of them is rejected with
\* AuthenticationError and never reaches the engine.
C31_UserIdentification ==
    [][\A r \in DOMAIN req :
          (req[r].pc = "user" /\ req'[r] # req[r])
             => IF BearerApplies(r)
                  THEN /\ req'[r].pc = FirstPc(req[r].op)
                       /\ req'[r].userId = req[r].bearer.userId
                       /\ ~req'[r].isExternal
                ELSE IF DeclaredExt(r) # <<>>
                  THEN /\ req'[r].pc = FirstPc(req[r].op)
                       /\ req'[r].isExternal
                       /\ req'[r].externalId = DeclaredExt(r)
                ELSE /\ req'[r].pc = "done"
                     /\ req'[r].result = "AuthenticationError"
                     /\ EngineFrame]_vars

\* C31 witness: a request with an expired bearer token and no external user
\* was rejected, and one with an inactive user's token and an external-user
\* header went on as the external user
C31_Witness ==
    /\ \E r \in DOMAIN req :
          /\ req[r].pc = "done" /\ req[r].result = "AuthenticationError"
          /\ req[r].bearer.present /\ ~req[r].bearer.ok
    /\ \E r \in DOMAIN req :
          /\ req[r].pc = "done" /\ req[r].result = "ok"
          /\ req[r].isExternal

\* C32: synthesized external user ids are namespaced by tenant and
\* collision-free: two requests get the same synthesized id only if they come
\* from the same tenant and declare the same external id.
C32_SynthIdsCollisionFree ==
    \A r, q \in DOMAIN req :
        (/\ req[r].isExternal /\ req[q].isExternal
         /\ req[r].userId = req[q].userId)
           => /\ req[r].appId = req[q].appId
              /\ req[r].externalId = req[q].externalId

\* the members of a sequence
Range(q) == {q[i] : i \in DOMAIN q}

\* C33: getAvailableSeats returns only seats of the requested tenant and
\* entity whose stored status was AVAILABLE at the seat read and that had no
\* lock key at the bulk lock check, ordered by seatNumber; a reserveSeat for
\* a seat that was listed to the caller and is locked by someone else when
\* the reserve reaches the lock store fails with SeatLockError.
C33_ListingAndReserve ==
    [][\A r \in DOMAIN req :
          /\ (req[r].pc = "l_read" /\ req'[r] # req[r])
                => \A s \in Range(req'[r].found) :
                       /\ SeatApp(s) = req[r].appId
                       /\ SeatEntity(s) = req[r].entityId
                       /\ seats[s].status = "AVAILABLE"
          /\ (req[r].pc = "l_locks" /\ req'[r] # req[r])
                => /\ Range(req'[r].listing) \subseteq Range(req[r].found)
                   /\ \A s \in Range(req'[r].listing) : locks[s] = NoLock
                   /\ \A i, j \in DOMAIN req'[r].listing :
                          i < j => SeatNumber(req'[r].listing[i])
                                     < SeatNumber(req'[r].listing[j])
          /\ (/\ req[r].op = "reserve" /\ req[r].pc = "r_lock"
              /\ \E q \in DOMAIN req :
                    /\ req[q].op = "list" /\ req[q].pc = "done"
                    /\ req[q].userId = req[r].userId
                    /\ req[r].seatId \in Range(req[q].listing)
              /\ locks[req[r].seatId] # NoLock
              /\ locks[req[r].seatId].userId # req[r].userId
              /\ req'[r] # req[r])
                => /\ req'[r].pc = "done"
                   /\ req'[r].result = "SeatLockError"
                   /\ reservations' = reservations]_vars

\* C33 witness: a seat was listed, with another one, to a user whose later
\* reserve of it failed with SeatLockError
C33_Witness ==
    /\ \E r, q \in DOMAIN req :
          /\ req[q].op = "list" /\ req[q].pc = "done"
          /\ req[r].op = "reserve" /\ req[r].pc = "done"
          /\ req[r].userId = req[q].userId
          /\ req[r].seatId \in Range(req[q].listing)
          /\ req[r].result = "SeatLockError"
    /\ \E q \in DOMAIN req :
          /\ req[q].op = "list" /\ req[q].pc = "done"
          /\ Len(req[q].listing) = 2

\* C34: with the gateway credentials configured, a confirm request whose
\* signature does not match the keyed MAC over orderId|paymentId is rejected
\* with a payment verification failure and confirmBooking is never invoked:
\* no state changes.
C34_BadSignatureRejected ==
    [][\A r \in DOMAIN req :
          (/\ req[r].pc = "c_sig"
           /\ req[r].signature # <<>>
           /\ req[r].signature #
                <<"hmac-sha256", "RAZORPAY_KEY_SECRET",
                  req[r].rzpOrderId, "|", req[r].rzpPaymentId>>
           /\ req'[r] # req[r])
             => /\ req'[r].pc = "done"
                /\ req'[r].result \in {"PaymentError", "ERROR"}
                /\ EngineFrame]_vars

\* ---- two seats, calls one after another, bookingId draws that may collide
NextCollide ==
    \/ \E r \in DOMAIN req : Quiet /\ StartReserveOn(r, Apps, TwoSeats)
    \/ \E r \in DOMAIN req : Quiet /\ StartConfirm(r)
    \/ ReserveSteps
    \/ ConfirmSteps
    \/ \E r \in DOMAIN req : ConfirmDuplicate(r)
    \/ SeqTick

SpecCollide == InitPay /\ [][NextCollide]_vars

\* ---- calls one after another while the lock store may fail a call
NextStore ==
    \/ \E r \in DOMAIN req : Quiet /\ StartReserve(r)
    \/ \E r \in DOMAIN req : Quiet /\ StartConfirm(r)
    \/ \E r \in DOMAIN req : Quiet /\ StartRelease(r)
    \/ ReserveSteps
    \/ ConfirmSteps
    \/ ReleaseSteps
    \/ SeqTick
    \/ \E r \in DOMAIN req : ReserveLockFail(r)

SpecStore == InitSeq /\ [][NextStore]_vars

\* C36: a bookingId collision inside the confirm transaction is resolved by
\* drawing a new id within the same transaction: the transaction of a confirm
\* call always ends in a commit, never in a failed call, and no two Bookings
\* carry the same bookingId.
C36_CollisionRegenerates ==
    [][\A r \in DOMAIN req :
          (req[r].pc = "c_txn" /\ req'[r] # req[r])
             => /\ req'[r].pc = "c_release"
                /\ \A b1, b2 \in bookings' : b1.id = b2.id => b1 = b2]_vars

\* C37: a failed store call in acquireLock is never a silent success: when
\* the lock step of reserveSeat ends without the caller's own token being
\* granted and returned, the call ends in an error and no Reservation row is
\* written.
C37_StoreFailureIsAnError ==
    [][\A r \in DOMAIN req :
          (/\ req[r].pc = "r_lock"
           /\ req'[r] # req[r]
           /\ \/ req'[r].token = Null
              \/ locks'[req[r].seatId].reservationToken # req'[r].token)
             => /\ req'[r].pc = "done"
                /\ req'[r].result \in {"Error", "SeatLockError"}
                /\ reservations' = reservations]_vars

C37_Witness ==
    \E r \in DOMAIN req :
       /\ req[r].op = "reserve"
       /\ req[r].pc = "done"
       /\ req[r].result = "Error"
       /\ req[r].detail = "Failed to acquire seat lock"
       /\ req[r].token = Null
       /\ \A t \in DOMAIN reservations :
             reservations[t].seatId = req[r].seatId => reservations[t].userId # req[r].userId

====
